---- MODULE Spec2Model ----
(***************************************************************************)
(* A model of the subscription pipeline of gen_clash_from_url (src/core.py)*)
(* and of the refresh-and-serve service built on it (src/server.py, and    *)
(* the same code nested in run_gui of src/ui.py).                          *)
(*                                                                         *)
(* Text is a TLA+ string over the characters TAB, LF, FF, CR and the       *)
(* printable ASCII range 32..126; bytes are sequences of integers 0..255.  *)
(* Python's None is the record [kind |-> "None"], a Node is                *)
(* [kind |-> "Node", name, data] and an exception leaving a function is    *)
(* [kind |-> "Raise", exc |-> <class name>].                               *)
(***************************************************************************)
EXTENDS Integers, Sequences, FiniteSets, TLC

(***************************************************************************)
(* str operations of Python used by src/core.py                            *)
(***************************************************************************)
Ch(s, i) == SubSeq(s, i, i)

\* F(lo) \o ... \o F(hi), by halving
RECURSIVE Cat(_, _, _)
Cat(F(_), lo, hi) ==
    IF lo > hi THEN ""
    ELSE IF lo = hi THEN F(lo)
    ELSE Cat(F, lo, (lo + hi) \div 2) \o Cat(F, (lo + hi) \div 2 + 1, hi)

\* the characters str.strip() removes, within the model's alphabet
Whitespace == {" ", "\t", "\n", "\r", "\f"}

StartsWith(s, p) == Len(s) >= Len(p) /\ SubSeq(s, 1, Len(p)) = p

Min(S) == CHOOSE i \in S : \A j \in S : i <= j

Max(S) == CHOOSE i \in S : \A j \in S : i >= j

\* the positions where sub occurs in s
Occurrences(s, sub) ==
    {i \in 1..(Len(s) - Len(sub) + 1) : SubSeq(s, i, i + Len(sub) - 1) = sub}

FirstOf(hits) == IF hits = {} THEN 0 ELSE Min(hits)

LastOf(hits) == IF hits = {} THEN 0 ELSE Max(hits)

\* str.find, 1-based; 0 when sub does not occur
Find(s, sub) == FirstOf(Occurrences(s, sub))

\* str.rfind, 1-based; 0 when sub does not occur
RFind(s, sub) == LastOf(Occurrences(s, sub))

\* the test  sub in s
Contains(s, sub) == Occurrences(s, sub) # {}

\* s from the first to the last of the positions keep
StripTo(s, keep) == IF keep = {} THEN "" ELSE SubSeq(s, Min(keep), Max(keep))

\* str.strip()
Strip(s) == StripTo(s, {i \in 1..Len(s) : Ch(s, i) \notin Whitespace})

\* the parts of s before and after the n characters at position i
SplitAt(s, i, n) == <<SubSeq(s, 1, i - 1), SubSeq(s, i + n, Len(s))>>

\* s.split(sep, 1) when sep occurs in s: the parts before and after the first sep
SplitFirst(s, sep) == SplitAt(s, Find(s, sep), Len(sep))

\* s.rsplit(sep, 1) when sep occurs in s: the parts before and after the last sep
SplitLast(s, sep) == SplitAt(s, RFind(s, sep), Len(sep))

\* the printable ASCII characters 32..95 and 97..126 (a TLA+ string cannot
\* hold the grave accent, code 96, which is therefore outside the alphabet)
PrintableLow == " !\"#$%&'()*+,-./0123456789:;<=>?@ABCDEFGHIJKLMNOPQRSTUVWXYZ[\\]^_"

PrintableHigh == "abcdefghijklmnopqrstuvwxyz{|}~"

\* the codes of the model's text alphabet
TextCodes == {9, 10, 12, 13} \cup (32..95) \cup (97..126)

\* chr(b) for a code of the text alphabet
Chr(b) ==
    CASE b = 9   -> "\t"
      [] b = 10  -> "\n"
      [] b = 12  -> "\f"
      [] b = 13  -> "\r"
      [] b <= 95 -> Ch(PrintableLow, b - 31)
      [] OTHER   -> Ch(PrintableHigh, b - 96)

\* ord(c) for a character of the text alphabet
Ord(c) == CHOOSE b \in TextCodes : Chr(b) = c

Digits == "0123456789"

DigitVal(c) == Find(Digits, c) - 1

IsDigit(c) == Contains(Digits, c)

(***************************************************************************)
(* int(str): surrounding whitespace is stripped, one sign is allowed, and  *)
(* the digits may be grouped by single underscores; anything else raises   *)
(* ValueError.                                                             *)
(***************************************************************************)
RECURSIVE DigitsValue(_, _, _)
DigitsValue(s, i, acc) ==
    IF i > Len(s) THEN acc
    ELSE IF Ch(s, i) = "_" THEN DigitsValue(s, i + 1, acc)
    ELSE DigitsValue(s, i + 1, acc * 10 + DigitVal(Ch(s, i)))

IsDecimal(s) ==
    /\ Len(s) > 0
    /\ \A i \in 1..Len(s) : IsDigit(Ch(s, i)) \/ Ch(s, i) = "_"
    /\ IsDigit(Ch(s, 1))
    /\ IsDigit(Ch(s, Len(s)))
    /\ \A i \in 1..(Len(s) - 1) : ~(Ch(s, i) = "_" /\ Ch(s, i + 1) = "_")

\* the digits after the sign
int_digits(neg, body) ==
    IF IsDecimal(body)
    THEN [ok |-> TRUE, val |-> IF neg THEN 0 - DigitsValue(body, 1, 0)
                                      ELSE DigitsValue(body, 1, 0)]
    ELSE [ok |-> FALSE, val |-> 0]

int_stripped(t) ==
    int_digits(StartsWith(t, "-"),
               IF StartsWith(t, "-") \/ StartsWith(t, "+") THEN Tail(t) ELSE t)

int(str) == int_stripped(Strip(str))

(***************************************************************************)
(* urllib.parse.unquote: every %XX with two hex digits becomes the         *)
(* character of that code; any other % is kept.  An escape whose code is   *)
(* outside the model's text alphabet is kept as written.                   *)
(***************************************************************************)
HexDigits == "0123456789ABCDEF"

HexLower == "0123456789abcdef"

IsHex(c) == Contains(HexDigits, c) \/ Contains(HexLower, c)

HexVal(c) == IF Contains(HexDigits, c) THEN Find(HexDigits, c) - 1 ELSE Find(HexLower, c) - 1

\* position i of s starts an escape %XX
IsEscape(s, i) ==
    /\ i >= 1
    /\ i + 2 <= Len(s)
    /\ Ch(s, i) = "%"
    /\ IsHex(Ch(s, i + 1))
    /\ IsHex(Ch(s, i + 2))
    /\ (16 * HexVal(Ch(s, i + 1)) + HexVal(Ch(s, i + 2))) \in TextCodes

unquote(s) ==
    Cat(LAMBDA i : IF IsEscape(s, i)
                   THEN Chr(16 * HexVal(Ch(s, i + 1)) + HexVal(Ch(s, i + 2)))
                   ELSE IF IsEscape(s, i - 1) \/ IsEscape(s, i - 2) THEN ""
                   ELSE Ch(s, i),
        1, Len(s))

(***************************************************************************)
(* base64.b64decode / base64.urlsafe_b64decode (non-validating): characters*)
(* outside the alphabet are discarded, decoding stops at a complete pad    *)
(* sequence, and an incomplete final quantum raises binascii.Error.        *)
(***************************************************************************)
B64Std == "ABCDEFGHIJKLMNOPQRSTUVWXYZabcdefghijklmnopqrstuvwxyz0123456789+/"

\* one character c of the input, of value v in the alphabet (-1: not in
\* it), from the decoder state st
a2b_sextet(st, c, v) ==
    IF st.done THEN st
    ELSE IF c = "="
    THEN IF st.quad >= 2 /\ st.quad + st.pads + 1 >= 4
         THEN [st EXCEPT !.done = TRUE]
         ELSE [st EXCEPT !.pads = IF st.quad >= 2 THEN st.pads + 1 ELSE st.pads]
    ELSE IF v < 0 THEN st
    ELSE CASE st.quad = 0 -> [st EXCEPT !.quad = 1, !.left = v, !.pads = 0]
           [] st.quad = 1 -> [st EXCEPT !.quad = 2, !.left = v % 16, !.pads = 0,
                                        !.out = Append(st.out, st.left * 4 + (v \div 16))]
           [] st.quad = 2 -> [st EXCEPT !.quad = 3, !.left = v % 4, !.pads = 0,
                                        !.out = Append(st.out, st.left * 16 + (v \div 4))]
           [] OTHER       -> [st EXCEPT !.quad = 0, !.left = 0, !.pads = 0,
                                        !.out = Append(st.out, st.left * 64 + v)]

a2b_step(st, c) == a2b_sextet(st, c, Find(B64Std, c) - 1)

\* the characters lo..hi of s in order, by halving; nothing is read once the
\* decoder is done
RECURSIVE a2b_run(_, _, _, _), a2b_rest(_, _, _, _)
a2b_run(s, lo, hi, st) ==
    IF st.done \/ lo > hi THEN st
    ELSE IF lo = hi THEN a2b_step(st, Ch(s, lo))
    ELSE a2b_rest(s, (lo + hi) \div 2 + 1, hi, a2b_run(s, lo, (lo + hi) \div 2, st))

\* the second half, from the state half the first half ends in
a2b_rest(s, lo, hi, half) == IF half.done THEN half ELSE a2b_run(s, lo, hi, half)

\* the result from the final state of the decoder
a2b_result(st) ==
    IF ~st.done /\ st.quad # 0 THEN [ok |-> FALSE, bytes |-> <<>>]
    ELSE [ok |-> TRUE, bytes |-> st.out]

\* binascii.a2b_base64: ok = FALSE is binascii.Error
b64decode(s) ==
    a2b_result(a2b_run(s, 1, Len(s),
                       [quad |-> 0, left |-> 0, pads |-> 0, out |-> <<>>, done |-> FALSE]))

\* the translation of '-' to '+' and of '_' to '/' done by urlsafe_b64decode
UrlsafeTranslate(s) ==
    Cat(LAMBDA i : CASE Ch(s, i) = "-" -> "+"
                     [] Ch(s, i) = "_" -> "/"
                     [] OTHER          -> Ch(s, i),
        1, Len(s))

urlsafe_b64decode(s) == b64decode(UrlsafeTranslate(s))

RECURSIVE Repeat(_, _)
Repeat(c, n) == IF n <= 0 THEN "" ELSE c \o Repeat(c, n - 1)

\* lines 29-32: the urlsafe result r, or on its failure the standard decoding
b64decode_fallback(r, s2) == IF r.ok THEN r ELSE b64decode(s2)

\* a decoder that hands the text on without completing its padding
b64decode_unpadded(s) ==
    IF s = "" THEN [ok |-> TRUE, bytes |-> <<>>]
    ELSE b64decode_fallback(urlsafe_b64decode(s), s)

\* lines 25-32, from the stripped text
b64decode_stripped(s) ==
    IF s = "" THEN [ok |-> TRUE, bytes |-> <<>>]
    ELSE b64decode_fallback(urlsafe_b64decode(s \o Repeat("=", (4 - (Len(s) % 4)) % 4)),
                            s \o Repeat("=", (4 - (Len(s) % 4)) % 4))

\* src/core.py b64decode_any: ok = FALSE is binascii.Error leaving the function
b64decode_any(str) == b64decode_stripped(Strip(str))

(***************************************************************************)
(* bytes.decode("utf-8", errors).  A byte of the text alphabet is its      *)
(* character.  Any other byte is treated as an invalid sequence: "strict"  *)
(* raises UnicodeDecodeError and "ignore" drops it.                        *)
(***************************************************************************)
InText(b) == b \in TextCodes

\* the characters of bytes of the text alphabet
decode_kept(kept) == Cat(LAMBDA i : Chr(kept[i]), 1, Len(kept))

decode_ignore(bytes) == decode_kept(SelectSeq(bytes, InText))

decode_strict(bytes) ==
    IF \A i \in 1..Len(bytes) : bytes[i] \in TextCodes
    THEN [ok |-> TRUE, text |-> decode_ignore(bytes)]
    ELSE [ok |-> FALSE, text |-> ""]

\* try: decode("utf-8", "strict"), except: decode("utf-8", "ignore")
strict_or_ignore(strict, bytes) == IF strict.ok THEN strict.text ELSE decode_ignore(bytes)

decode_text(bytes) == strict_or_ignore(decode_strict(bytes), bytes)

(***************************************************************************)
(* Results of the parsers                                                  *)
(***************************************************************************)
None == [kind |-> "None"]

Node(name, data) == [kind |-> "Node", name |-> name, data |-> data]

Raise(exc) == [kind |-> "Raise", exc |-> exc]

(***************************************************************************)
(* src/core.py parse_ss                                                    *)
(***************************************************************************)
\* lines 102 and 107: port = int(...), n being what int returns or raises
ss_port(host, n) ==
    IF ~n.ok THEN Raise("ValueError")
    ELSE [kind |-> "HostPort", host |-> host, port |-> n.val]

\* lines 97-102: the form [host]:port, i being the position of ']'
ss_bracket(hp, i) ==
    IF ~StartsWith(SubSeq(hp, i + 1, Len(hp)), ":") THEN None
    ELSE ss_port(SubSeq(hp, 2, i - 1), int(SubSeq(hp, i + 2, Len(hp))))

\* lines 106-107: host, p = hp.rsplit(":", 1)
ss_plain(parts) == ss_port(parts[1], int(parts[2]))

\* lines 96-107
ss_hostport_stripped(hp) ==
    IF StartsWith(hp, "[") /\ Contains(hp, "]") THEN ss_bracket(hp, Find(hp, "]"))
    ELSE IF ~Contains(hp, ":") THEN None
    ELSE ss_plain(SplitLast(hp, ":"))

\* lines 94-107: host:port, possibly the IPv6 form [::1]:443
ss_hostport(hostport) == ss_hostport_stripped(Strip(hostport))

\* line 65: rest = uri[len("ss://"):].strip()
ss_after_scheme(uri) == Strip(SubSeq(uri, Len("ss://") + 1, Len(uri)))

\* lines 68-70: the tag after '#'
ss_tag_of(rest) ==
    IF Contains(rest, "#") THEN unquote(Strip(SplitFirst(rest, "#")[2])) ELSE ""

ss_tag(uri) == ss_tag_of(ss_after_scheme(uri))

\* rest without what follows the first sep
ss_cut(rest, sep) == IF Contains(rest, sep) THEN SplitFirst(rest, sep)[1] ELSE rest

\* a remainder that keeps the query
ss_rest_query_kept(uri) == Strip(ss_cut(ss_after_scheme(uri), "#"))

\* lines 65-76: the rest without fragment and query
ss_rest(uri) == Strip(ss_cut(ss_cut(ss_after_scheme(uri), "#"), "?"))

\* line 80: the remainder is taken as base64
ss_is_base64(rest) == ~Contains(rest, "@") \/ ~Contains(SplitFirst(rest, "@")[1], ":")

\* line 109: name = tag or f"ss@{host}:{port}"
ss_name(tag, hp) == IF tag # "" THEN tag ELSE "ss@" \o hp.host \o ":" \o ToString(hp.port)

\* lines 110-119
ss_descriptor(name, method, password, hp) ==
    Node(name, [name     |-> name,
                type     |-> "ss",
                server   |-> hp.host,
                port     |-> hp.port,
                cipher   |-> method,
                password |-> password,
                udp      |-> TRUE])

\* lines 92-119: method, password = auth.split(":", 1), hp the host and port
ss_from_hostport(auth, hp, tag) ==
    IF hp.kind # "HostPort" THEN hp
    ELSE ss_descriptor(ss_name(tag, hp), SplitFirst(auth, ":")[1], SplitFirst(auth, ":")[2], hp)

\* lines 89-119: auth, hostport = rest2.split("@", 1)
ss_from_parts(parts, tag) ==
    IF ~Contains(parts[1], ":") THEN None
    ELSE ss_from_hostport(parts[1], ss_hostport(parts[2]), tag)

\* lines 86-119, from the decoded remainder rest2
ss_from_decoded(rest2, tag) ==
    IF ~Contains(rest2, "@") THEN None
    ELSE ss_from_parts(SplitFirst(rest2, "@"), tag)

\* lines 81-82: raw is what b64decode_any(rest) returns or raises
ss_from_base64(raw, tag) ==
    IF ~raw.ok THEN Raise("binascii.Error")
    ELSE ss_from_decoded(Strip(decode_ignore(raw.bytes)), tag)

\* lines 80-119
ss_from_rest(rest, tag) ==
    IF ss_is_base64(rest) THEN ss_from_base64(b64decode_any(rest), tag)
    ELSE ss_from_decoded(unquote(rest), tag)

parse_ss(uri) == ss_from_rest(ss_rest(uri), ss_tag(uri))

(***************************************************************************)
(* json.loads.  A JSON value is a record tagged by its Python type:        *)
(* [t |-> "str", v], [t |-> "int", v], [t |-> "bool", v], [t |-> "None"],  *)
(* [t |-> "list", v] (a sequence) and [t |-> "dict", v] (a function from   *)
(* keys to values; a repeated key keeps its last value).  Every parsing    *)
(* operator returns [ok, v, next]: next is the position after the value.   *)
(* Outside the model: numbers with a fraction or an exponent, the escapes  *)
(* \b and \uXXXX, and the constants NaN and Infinity.                      *)
(***************************************************************************)
JStr(v) == [t |-> "str", v |-> v]

JInt(v) == [t |-> "int", v |-> v]

JBool(v) == [t |-> "bool", v |-> v]

JNone == [t |-> "None"]

JList(v) == [t |-> "list", v |-> v]

JDict(v) == [t |-> "dict", v |-> v]

JFail == [ok |-> FALSE, v |-> JNone, next |-> 0]

JOk(v, next) == [ok |-> TRUE, v |-> v, next |-> next]

JsonWhitespace == {" ", "\t", "\n", "\r"}

RECURSIVE SkipWS(_, _)
SkipWS(s, i) == IF i <= Len(s) /\ Ch(s, i) \in JsonWhitespace THEN SkipWS(s, i + 1) ELSE i

\* the character a backslash escape stands for, "" when it is not one
JsonEscape(c) ==
    CASE c = "\"" -> "\""
      [] c = "\\" -> "\\"
      [] c = "/"  -> "/"
      [] c = "n"  -> "\n"
      [] c = "t"  -> "\t"
      [] c = "r"  -> "\r"
      [] c = "f"  -> "\f"
      [] OTHER    -> ""

\* the backslash at position i of s, i >= from, is itself escaped
RECURSIVE Escaped(_, _, _)
Escaped(s, from, i) ==
    i > from /\ Ch(s, i - 1) = "\\" /\ ~Escaped(s, from, i - 1)

\* the unescaped quotes of s from position i
StringQuotes(s, i) == {j \in i..Len(s) : Ch(s, j) = "\"" /\ ~Escaped(s, i, j)}

\* the character at position j may not stand in a string
StringBad(s, i, j) ==
    IF Escaped(s, i, j) THEN JsonEscape(Ch(s, j)) = ""
    ELSE Ch(s, j) \in {"\t", "\n", "\r", "\f"}

\* the text between position i and the closing quote
StringText(s, i, close) ==
    Cat(LAMBDA j : IF Escaped(s, i, j) THEN JsonEscape(Ch(s, j))
                   ELSE IF Ch(s, j) = "\\" THEN ""
                   ELSE Ch(s, j),
        i, close - 1)

StringUpTo(s, i, acc, close) ==
    IF \E j \in i..(close - 1) : StringBad(s, i, j) THEN JFail
    ELSE JOk(JStr(acc \o StringText(s, i, close)), close + 1)

StringClosed(s, i, acc, quotes) ==
    IF quotes = {} THEN JFail ELSE StringUpTo(s, i, acc, Min(quotes))

\* the string whose first character is at position i, after the opening quote
ParseString(s, i, acc) == StringClosed(s, i, acc, StringQuotes(s, i))

RECURSIVE DigitsEnd(_, _)
DigitsEnd(s, i) == IF i <= Len(s) /\ IsDigit(Ch(s, i)) THEN DigitsEnd(s, i + 1) ELSE i

\* the number whose digits are at positions first..stop-1
NumberValue(s, neg, first, stop) ==
    IF stop = first THEN JFail
    ELSE IF stop <= Len(s) /\ Ch(s, stop) \in {".", "e", "E"} THEN JFail
    ELSE JOk(JInt(IF neg THEN 0 - DigitsValue(SubSeq(s, first, stop - 1), 1, 0)
                  ELSE DigitsValue(SubSeq(s, first, stop - 1), 1, 0)),
             stop)

NumberFrom(s, neg, first) ==
    NumberValue(s, neg, first,
                IF first <= Len(s) /\ Ch(s, first) = "0" THEN first + 1
                ELSE DigitsEnd(s, first))

\* -?(0|[1-9][0-9]*) starting at position i
ParseNumber(s, i) == NumberFrom(s, Ch(s, i) = "-", IF Ch(s, i) = "-" THEN i + 1 ELSE i)

RECURSIVE ParseValue(_, _)
RECURSIVE ParseMembers(_, _, _)
RECURSIVE ParseElements(_, _, _)

\* after a member: '}' ends the object, ',' brings the next member
MemberNext(s, sep, acc2) ==
    IF sep > Len(s) THEN JFail
    ELSE IF Ch(s, sep) = "}" THEN JOk(JDict(acc2), sep + 1)
    ELSE IF Ch(s, sep) = "," THEN ParseMembers(s, SkipWS(s, sep + 1), acc2)
    ELSE JFail

MemberValue(s, key, val, acc) ==
    IF ~val.ok THEN JFail
    ELSE MemberNext(s, SkipWS(s, val.next), (key.v.v :> val.v) @@ acc)

MemberColon(s, key, colon, acc) ==
    IF colon > Len(s) \/ Ch(s, colon) # ":" THEN JFail
    ELSE MemberValue(s, key, ParseValue(s, SkipWS(s, colon + 1)), acc)

MemberKey(s, key, acc) ==
    IF ~key.ok THEN JFail ELSE MemberColon(s, key, SkipWS(s, key.next), acc)

\* the members of an object after '{' or ',': i is at the key's opening quote
ParseMembers(s, i, acc) ==
    IF i > Len(s) \/ Ch(s, i) # "\"" THEN JFail
    ELSE MemberKey(s, ParseString(s, i + 1, ""), acc)

\* after an element: ']' ends the array, ',' brings the next element
ElementNext(s, sep, acc2) ==
    IF sep > Len(s) THEN JFail
    ELSE IF Ch(s, sep) = "]" THEN JOk(JList(acc2), sep + 1)
    ELSE IF Ch(s, sep) = "," THEN ParseElements(s, SkipWS(s, sep + 1), acc2)
    ELSE JFail

ElementValue(s, val, acc) ==
    IF ~val.ok THEN JFail ELSE ElementNext(s, SkipWS(s, val.next), Append(acc, val.v))

\* the elements of an array after '[' or ','
ParseElements(s, i, acc) == ElementValue(s, ParseValue(s, i), acc)

\* after '{': j is the position of the next token
OpenObject(s, j) ==
    IF j <= Len(s) /\ Ch(s, j) = "}" THEN JOk(JDict(<<>>), j + 1)
    ELSE ParseMembers(s, j, <<>>)

\* after '[': j is the position of the next token
OpenArray(s, j) ==
    IF j <= Len(s) /\ Ch(s, j) = "]" THEN JOk(JList(<<>>), j + 1)
    ELSE ParseElements(s, j, <<>>)

\* the value whose first character c is at position i
ValueAt(s, i, c) ==
    CASE c = "\"" -> ParseString(s, i + 1, "")
      [] c = "{"  -> OpenObject(s, SkipWS(s, i + 1))
      [] c = "["  -> OpenArray(s, SkipWS(s, i + 1))
      [] c = "-" \/ IsDigit(c) -> ParseNumber(s, i)
      [] StartsWith(SubSeq(s, i, Len(s)), "true")  -> JOk(JBool(TRUE), i + 4)
      [] StartsWith(SubSeq(s, i, Len(s)), "false") -> JOk(JBool(FALSE), i + 5)
      [] StartsWith(SubSeq(s, i, Len(s)), "null")  -> JOk(JNone, i + 4)
      [] OTHER -> JFail

ParseValue(s, i) == IF i > Len(s) THEN JFail ELSE ValueAt(s, i, Ch(s, i))

\* the value val is all of s but whitespace
JsonWhole(s, val) == IF val.ok /\ SkipWS(s, val.next) = Len(s) + 1 THEN val ELSE JFail

\* json.loads(s): ok = FALSE is json.JSONDecodeError
json_loads(s) == JsonWhole(s, ParseValue(s, SkipWS(s, 1)))

(***************************************************************************)
(* Python semantics used by parse_vmess on the loaded JSON values          *)
(***************************************************************************)
\* bool(v)
Truthy(v) ==
    CASE v.t = "str"  -> v.v # ""
      [] v.t = "int"  -> v.v # 0
      [] v.t = "bool" -> v.v
      [] v.t = "list" -> Len(v.v) > 0
      [] v.t = "dict" -> DOMAIN v.v # {}
      [] OTHER        -> FALSE

\* a or b
Or(a, b) == IF Truthy(a) THEN a ELSE b

\* conf.get(key) on a dict
Get(conf, key) == IF key \in DOMAIN conf.v THEN conf.v[key] ELSE JNone

\* the value as it is stored in a descriptor
Unwrap(v) == IF v.t \in {"str", "int", "bool"} THEN v.v ELSE v

\* int(v) on a str, n being what int returns or raises
py_int_str(n) == IF n.ok THEN [kind |-> "Int", val |-> n.val] ELSE Raise("ValueError")

\* int(v) on a loaded value
py_int(v) ==
    CASE v.t = "int"  -> [kind |-> "Int", val |-> v.v]
      [] v.t = "bool" -> [kind |-> "Int", val |-> IF v.v THEN 1 ELSE 0]
      [] v.t = "str"  -> py_int_str(int(v.v))
      [] OTHER        -> Raise("TypeError")

UpperLetters == "ABCDEFGHIJKLMNOPQRSTUVWXYZ"

LowerLetters == "abcdefghijklmnopqrstuvwxyz"

\* str.lower()
Lower(s) ==
    Cat(LAMBDA i : IF Contains(UpperLetters, Ch(s, i))
                   THEN Ch(LowerLetters, Find(UpperLetters, Ch(s, i)))
                   ELSE Ch(s, i),
        1, Len(s))

(***************************************************************************)
(* src/core.py parse_vmess                                                 *)
(***************************************************************************)
\* TLS keys that name the server whether TLS is enabled or not
vmess_tls_opts_servername_always(tls, sni) ==
    IF Truthy(sni)
    THEN IF tls
         THEN ("tls" :> TRUE) @@ ("skip-cert-verify" :> TRUE) @@ ("servername" :> Unwrap(sni))
         ELSE "servername" :> Unwrap(sni)
    ELSE IF tls THEN ("tls" :> TRUE) @@ ("skip-cert-verify" :> TRUE) ELSE <<>>

\* lines 162-166: the TLS keys
vmess_tls_opts(tls, sni) ==
    IF ~tls THEN <<>>
    ELSE IF Truthy(sni)
    THEN ("tls" :> TRUE) @@ ("skip-cert-verify" :> TRUE) @@ ("servername" :> Unwrap(sni))
    ELSE ("tls" :> TRUE) @@ ("skip-cert-verify" :> TRUE)

\* lines 170-174: ws-opts from path and host_hdr
vmess_ws_block(path, host_hdr) ==
    IF Truthy(host_hdr)
    THEN "ws-opts" :> (("path" :> Unwrap(path)) @@
                       ("headers" :> ("Host" :> Unwrap(host_hdr))))
    ELSE "ws-opts" :> ("path" :> Unwrap(path))

\* lines 169-174: the websocket block
vmess_ws_opts(conf, net, sni) ==
    IF ~(net.t = "str" /\ net.v = "ws") THEN <<>>
    ELSE vmess_ws_block(Or(Get(conf, "path"), JStr("/")),
                        Or(Or(Get(conf, "host"), sni), JStr("")))

\* a gRPC block written whether a service name is given or not
vmess_grpc_block_always(svc) == "grpc-opts" :> ("grpc-service-name" :> Unwrap(svc))

\* lines 178-180: grpc-opts from svc
vmess_grpc_block(svc) ==
    IF Truthy(svc) THEN "grpc-opts" :> ("grpc-service-name" :> Unwrap(svc)) ELSE <<>>

\* lines 177-180: the gRPC block
vmess_grpc_opts(conf, net) ==
    IF ~(net.t = "str" /\ net.v = "grpc") THEN <<>>
    ELSE vmess_grpc_block(Or(Or(Get(conf, "path"), Get(conf, "serviceName")), JStr("")))

\* lines 139-182, from the values read from conf
vmess_node(conf, name, server, port, uuid, aid, net, tlsv, sni) ==
    IF port.kind = "Raise" THEN port
    ELSE IF aid.kind = "Raise" THEN aid
    ELSE IF tlsv.t # "str" THEN Raise("AttributeError")
    ELSE IF ~Truthy(server) \/ port.val = 0 \/ ~Truthy(uuid) THEN None
    ELSE Node(Unwrap(name),
              ("name" :> Unwrap(name)) @@
              ("type" :> "vmess") @@
              ("server" :> Unwrap(server)) @@
              ("port" :> port.val) @@
              ("uuid" :> Unwrap(uuid)) @@
              ("alterId" :> aid.val) @@
              ("cipher" :> Unwrap(Or(Get(conf, "scy"), JStr("auto")))) @@
              ("network" :> Unwrap(net)) @@
              ("udp" :> TRUE) @@
              vmess_tls_opts(Lower(tlsv.v) = "tls", sni) @@
              vmess_ws_opts(conf, net, sni) @@
              vmess_grpc_opts(conf, net))

\* a parser that gives a payload without id the nil uuid
vmess_from_conf_nil_uuid(conf) ==
    vmess_node(conf,
               Or(Or(Get(conf, "ps"), Get(conf, "remark")), JStr("vmess")),
               Or(Or(Get(conf, "add"), Get(conf, "host")), JStr("")),
               py_int(Or(Get(conf, "port"), JInt(0))),
               Or(Get(conf, "id"), JStr("00000000-0000-0000-0000-000000000000")),
               py_int(Or(Get(conf, "aid"), JInt(0))),
               Or(Get(conf, "net"), JStr("tcp")),
               Or(Get(conf, "tls"), JStr("")),
               Or(Or(Or(Get(conf, "sni"), Get(conf, "servername")), Get(conf, "host")),
                  JStr("")))

\* lines 137-182, from the loaded JSON object conf
vmess_from_conf(conf) ==
    vmess_node(conf,
               Or(Or(Get(conf, "ps"), Get(conf, "remark")), JStr("vmess")),
               Or(Or(Get(conf, "add"), Get(conf, "host")), JStr("")),
               py_int(Or(Get(conf, "port"), JInt(0))),
               Or(Get(conf, "id"), JStr("")),
               py_int(Or(Get(conf, "aid"), JInt(0))),
               Or(Get(conf, "net"), JStr("tcp")),
               Or(Get(conf, "tls"), JStr("")),
               Or(Or(Or(Get(conf, "sni"), Get(conf, "servername")), Get(conf, "host")),
                  JStr("")))

\* lines 132-182: conf is what json.loads returns or raises
vmess_from_json(conf) ==
    IF ~conf.ok THEN None
    ELSE IF conf.v.t # "dict" THEN Raise("AttributeError")
    ELSE vmess_from_conf(conf.v)

\* lines 127-182: raw is what b64decode_any(rest) returns or raises
vmess_from_bytes(raw) ==
    IF ~raw.ok THEN Raise("binascii.Error")
    ELSE vmess_from_json(json_loads(decode_text(raw.bytes)))

\* lines 124-182
vmess_from_rest(rest) ==
    IF rest = "" THEN None ELSE vmess_from_bytes(b64decode_any(rest))

parse_vmess(uri) == vmess_from_rest(Strip(SubSeq(uri, Len("vmess://") + 1, Len(uri))))

(***************************************************************************)
(* src/core.py parse_node                                                  *)
(***************************************************************************)
\* a dispatch that hands a line of any other scheme to parse_ss
parse_stripped_other_as_ss(line) ==
    IF StartsWith(line, "vmess://") THEN parse_vmess(line) ELSE parse_ss(line)

\* lines 187-191
parse_stripped(line) ==
    IF StartsWith(line, "ss://") THEN parse_ss(line)
    ELSE IF StartsWith(line, "vmess://") THEN parse_vmess(line)
    ELSE None

parse_node(ln) == parse_stripped(Strip(ln))

(***************************************************************************)
(* src/core.py split_subscription_lines                                    *)
(***************************************************************************)
\* position e of text ends a line for str.splitlines()
IsLineEnd(text, e) ==
    \/ Ch(text, e) \in {"\n", "\f"}
    \/ Ch(text, e) = "\r" /\ ~(e < Len(text) /\ Ch(text, e + 1) = "\n")

LineEnds(text) == {e \in 1..Len(text) : IsLineEnd(text, e)}

\* the positions where the lines stop: the line ends, and the end of the
\* text when it does not end a line
LineStops(text, ends) ==
    IF LastOf(ends) < Len(text) THEN ends \cup {Len(text) + 1} ELSE ends

\* the k-th of the positions stops
Kth(stops, k) == CHOOSE e \in stops : Cardinality({f \in stops : f < e}) = k - 1

\* where line k starts
LineFirst(stops, k) == IF k = 1 THEN 1 ELSE Kth(stops, k - 1) + 1

\* where the line from first to stop ends, its "\r\n" or line end dropped
LineLast(text, first, stop) ==
    IF stop <= Len(text) /\ Ch(text, stop) = "\n" /\ stop > first /\ Ch(text, stop - 1) = "\r"
    THEN stop - 2 ELSE stop - 1

LinesAt(text, stops) ==
    [k \in 1..Cardinality(stops) |->
        SubSeq(text, LineFirst(stops, k), LineLast(text, LineFirst(stops, k), Kth(stops, k)))]

\* str.splitlines(): the line ends are dropped, "\r\n" counts as one of them,
\* and no empty line follows a final line end
splitlines(text) == LinesAt(text, LineStops(text, LineEnds(text)))

\* line 59: [ln.strip() for ln in ...]
StripAll(lines) == [k \in DOMAIN lines |-> Strip(lines[k])]

\* line 60: ln and "://" in ln
KeepLine(ln) == ln # "" /\ Contains(ln, "://")

\* the lines kept, from the second on
KeptAfterFirst(kept) == IF kept = <<>> THEN kept ELSE Tail(kept)

\* a split whose loop starts after the first line
lines_of_bytes_after_first(raw) ==
    IF ~raw.ok THEN Raise("binascii.Error")
    ELSE [kind  |-> "Lines",
          lines |-> KeptAfterFirst(SelectSeq(StripAll(splitlines(decode_text(raw.bytes))),
                                             KeepLine))]

\* lines 55-60: raw is what b64decode_any(body_b64) returns or raises
lines_of_bytes(raw) ==
    IF ~raw.ok THEN Raise("binascii.Error")
    ELSE [kind  |-> "Lines",
          lines |-> SelectSeq(StripAll(splitlines(decode_text(raw.bytes))), KeepLine)]

split_subscription_lines(body_b64) == lines_of_bytes(b64decode_any(body_b64))

(***************************************************************************)
(* base64.b64encode of a text of the model's alphabet (its UTF-8 bytes are *)
(* its codes): the encoding a subscription server applies to its body.     *)
(***************************************************************************)
\* byte i of the text, 0 past its end
Byte(text, i) == IF i <= Len(text) THEN Ord(Ch(text, i)) ELSE 0

B64(v) == Ch(B64Std, v + 1)

\* the four characters of the bytes a, b, c; short2 and short3 when the text
\* ends before b and before c
Quantum(a, b, c, short2, short3) ==
    B64(a \div 4) \o
    B64((a % 4) * 16 + (b \div 16)) \o
    (IF short2 THEN "=" ELSE B64((b % 16) * 4 + (c \div 64))) \o
    (IF short3 THEN "=" ELSE B64(c % 64))

Group(text, g) ==
    Quantum(Byte(text, 3 * g - 2), Byte(text, 3 * g - 1), Byte(text, 3 * g),
            3 * g - 1 > Len(text), 3 * g > Len(text))

b64encode(text) == Cat(LAMBDA g : Group(text, g), 1, (Len(text) + 2) \div 3)

(***************************************************************************)
(* src/core.py fetch_text.  The reply of the subscription server is        *)
(* [failed, ok, text]: failed when requests raises (no connection, time    *)
(* out), else ok is r.ok and text is r.text.                               *)
(***************************************************************************)
InternalError(msg) == [kind |-> "Raise", exc |-> "InternalError", msg |-> msg]

\* the two messages of fetch_text and the one of generate_from_url
MsgRequestFailed == "request failed"

MsgHttpStatus == "HTTP status"

MsgEmptyResult == "empty result"

fetch_text(reply) ==
    IF reply.failed THEN InternalError(MsgRequestFailed)
    ELSE IF ~reply.ok \/ Strip(reply.text) = "" THEN InternalError(MsgHttpStatus)
    ELSE [kind |-> "Text", text |-> Strip(reply.text)]

(***************************************************************************)
(* src/core.py build_clash_config                                          *)
(***************************************************************************)
\* an assembler that binds to all interfaces whatever allow_lan is
bind_address_always(cfg, allow_lan) == cfg @@ ("bind-address" :> "*")

\* lines 222-223
bind_address(cfg, allow_lan) == IF allow_lan THEN cfg @@ ("bind-address" :> "*") ELSE cfg

build_clash_config(nodes, port, allow_lan) ==
    bind_address(("port" :> port) @@
                 ("socks-port" :> port + 1) @@
                 ("allow-lan" :> allow_lan) @@
                 ("mode" :> "rule") @@
                 ("log-level" :> "warning") @@
                 ("external-controller" :> "127.0.0.1:9090") @@
                 ("proxies" :> [i \in DOMAIN nodes |-> nodes[i].data]) @@
                 ("proxy-groups" :> <<[name |-> "MANUAL", type |-> "select",
                                       proxies |-> [i \in DOMAIN nodes |-> nodes[i].name]]>>) @@
                 ("rules" :> <<"GEOIP,LAN,DIRECT,no-resolve",
                               "GEOIP,CN,DIRECT",
                               "MATCH,MANUAL">>),
                 allow_lan)

(***************************************************************************)
(* src/gen_clash_from_url.py build_clash_config: the layout with the       *)
(* auto-test group                                                         *)
(***************************************************************************)
gen_clash_from_url_build_clash_config(nodes, port, allow_lan) ==
    bind_address(("port" :> port) @@
                 ("socks-port" :> port + 1) @@
                 ("allow-lan" :> allow_lan) @@
                 ("mode" :> "rule") @@
                 ("log-level" :> "warning") @@
                 ("external-controller" :> "127.0.0.1:9090") @@
                 ("proxies" :> [i \in DOMAIN nodes |-> nodes[i].data]) @@
                 ("proxy-groups" :> <<[name |-> "AUTO", type |-> "url-test",
                                       proxies |-> [i \in DOMAIN nodes |-> nodes[i].name],
                                       url |-> "https://cp.cloudflare.com/generate_204",
                                       interval |-> 300],
                                      [name |-> "MANUAL", type |-> "select",
                                       proxies |-> <<"AUTO", "DIRECT">>
                                                   \o [i \in DOMAIN nodes |-> nodes[i].name]]>>) @@
                 ("rules" :> <<"GEOIP,LAN,DIRECT,no-resolve",
                               "GEOIP,CN,DIRECT",
                               "MATCH,MANUAL">>),
                 allow_lan)

(***************************************************************************)
(* src/core.py generate_from_url                                           *)
(***************************************************************************)
\* yaml.safe_dump(cfg): the text is represented by the document it
\* serialises; the dump of a mapping is never blank, the empty text is <<>>
safe_dump(cfg) == <<cfg>>

\* a loop that puts each node in front of those already parsed
RECURSIVE parse_lines_prepend(_, _, _)
parse_prepend_next(lines, i, nodes, n) ==
    IF n.kind = "Raise" THEN n
    ELSE parse_lines_prepend(lines, i + 1, IF n.kind = "Node" THEN <<n>> \o nodes ELSE nodes)

parse_lines_prepend(lines, i, nodes) ==
    IF i > Len(lines) THEN [kind |-> "Nodes", nodes |-> nodes]
    ELSE parse_prepend_next(lines, i, nodes, parse_node(lines[i]))

RECURSIVE parse_lines(_, _, _)
\* lines 238-239: n is what parse_node(ln) returns or raises; an exception
\* ends the loop
parse_lines_next(lines, i, nodes, n) ==
    IF n.kind = "Raise" THEN n
    ELSE parse_lines(lines, i + 1, IF n.kind = "Node" THEN Append(nodes, n) ELSE nodes)

\* lines 235-239: the nodes of lines[i..], after those already parsed
parse_lines(lines, i, nodes) ==
    IF i > Len(lines) THEN [kind |-> "Nodes", nodes |-> nodes]
    ELSE parse_lines_next(lines, i, nodes, parse_node(lines[i]))

default_port == 1082

\* line 246
generate_result(nodes, cfg) ==
    [kind |-> "Ok", nodes |-> Len(nodes), cfg |-> cfg, yaml_text |-> safe_dump(cfg)]

\* lines 241-246: parsed is the outcome of the loop
generate_from_nodes(parsed) ==
    IF parsed.kind = "Raise" THEN parsed
    ELSE IF parsed.nodes = <<>> THEN InternalError(MsgEmptyResult)
    ELSE generate_result(parsed.nodes, build_clash_config(parsed.nodes, default_port, TRUE))

\* lines 235-246: lines is what split_subscription_lines returns or raises
generate_from_lines(lines) ==
    IF lines.kind = "Raise" THEN lines
    ELSE generate_from_nodes(parse_lines(lines.lines, 1, <<>>))

\* lines 233-246: body_b64 is what fetch_text returns or raises
generate_from_body(body_b64) ==
    IF body_b64.kind = "Raise" THEN body_b64
    ELSE generate_from_lines(split_subscription_lines(body_b64.text))

generate_from_url(reply) == generate_from_body(fetch_text(reply))

(***************************************************************************)
(* State.  The refresh-and-serve service of src/server.py: the shared      *)
(* "latest" slot, its lock, the stop event, the refresh thread and the     *)
(* threads of the HTTP server handling GET requests.  The pipeline run on  *)
(* its own: a reply of the subscription server and what generate_from_url  *)
(* makes of it; a line and what a parser makes of it.                      *)
(***************************************************************************)
VARIABLES
    latest,      \* the dict latest: text, error, nodes, updated
    lock,        \* the thread holding lock, or "free"
    stop_event,  \* stop_event.is_set()
    now,         \* time.time(), in ticks
    rpc,         \* where the refresh thread is
    rresult,     \* refresh_once: what generate_from_url returned or raised
    hpc,         \* where each handler thread is
    hpath,       \* do_GET: self.path
    hmethod,     \* the method of the request, self.command
    fetches,     \* the requests the refresh_once call of this cycle has sent
    htext,       \* do_GET: text
    herr,        \* do_GET: err
    hresp,       \* do_GET: the response sent
    committed,   \* text and error of latest after the last completed publish
    outcomes,    \* what generate_from_url returns or raises in this run of the service
    reply,       \* the reply of the subscription server to one generation call
    out,         \* what that call of generate_from_url returned or raised
    genpc,       \* "call" before the call, "done" after it
    line,        \* the line or text handed to a function of core.py
    node,        \* what the function returned or raised
    called,      \* the function called, "" before the call
    bnodes,      \* build_clash_config: nodes
    bport,       \* build_clash_config: port
    ballow,      \* build_clash_config: allow_lan
    bcfg,        \* the document build_clash_config returned
    bcalled,     \* the module whose build_clash_config was called, "" before the call
    gmodule,     \* the module whose run_gui runs, "off" when none does
    latest_yaml, \* run_gui: latest_yaml["text"]
    output_text, \* run_gui: the text of the output box
    status,      \* run_gui: the kind of the message in status_var
    path_var,    \* run_gui: path_var
    file,        \* the file at the path of GuiPaths: whether it exists, and its text
    gop,         \* the callback run last of those that generate, edit and save, "" before any
    attempted,   \* the text handed to f.write by the save attempted last
    gen_results, \* what generate_from_url returns or raises in this run of the GUI
    serve_state,       \* run_gui: serve_state, each entry None or the object of a session
    serve_enabled_var, \* run_gui: serve_enabled_var
    sessions,    \* the local servers started so far; session s is the s-th of them
    surl,        \* start_local_server of session s: url
    slatest,     \* start_local_server of session s: the dict latest
    sstop,       \* start_local_server of session s: stop_event.is_set()
    shttpd,      \* start_local_server of session s: httpd, "serving" or "closed"
    srpc,        \* where the refresh thread of session s is
    srresult,    \* refresh_once of session s: what generate_from_url returned or raised
    sresp,       \* the response a do_GET of a local server sent last, and its session
    spublished,  \* the texts the refresh thread of session s has published
    after_queue, \* the callbacks root.after has queued and the main loop has not run
    read_inputs  \* what start_local_server reads from the boxes in this run of the GUI

vars == <<latest, lock, stop_event, now, rpc, rresult, hpc, hpath, hmethod, htext, herr, hresp,
          fetches, committed, outcomes, reply, out, genpc, line, node, called,
          bnodes, bport, ballow, bcfg, bcalled,
          gmodule, latest_yaml, output_text, status, path_var, file, gop, attempted, gen_results,
          serve_state, serve_enabled_var, sessions, surl, slatest, sstop, shttpd, srpc,
          srresult, sresp, spublished, after_queue, read_inputs>>

serverVars == <<latest, lock, stop_event, now, rpc, rresult, hpc, hpath, hmethod, htext, herr,
                hresp, fetches, committed, outcomes>>

genVars == <<reply, out, genpc>>

parseVars == <<line, node, called>>

buildVars == <<bnodes, bport, ballow, bcfg, bcalled>>

docVars == <<latest_yaml, output_text, status>>

saveVars == <<gmodule, path_var, file, gop, attempted, gen_results>>

stateVars == <<serve_state, serve_enabled_var, sessions>>

threadVars == <<surl, slatest, sstop, shttpd, srpc, srresult, sresp, spublished>>

sessionVars == <<stateVars, threadVars, after_queue, read_inputs>>

guiVars == <<docVars, saveVars, sessionVars>>

(***************************************************************************)
(* Bounds and inputs                                                       *)
(***************************************************************************)
\* the handler threads of the ThreadingHTTPServer
NumHandlers == 1

\* the local servers one run of the GUI starts
MaxSessions == 2

Sessions == 1..MaxSessions

\* the callbacks root.after holds at a time
MaxPending == 1

Handlers == 1..NumHandlers

\* the last tick of the clock
MaxTime == 2

\* the longest subscription, in lines
MaxLines == 2

\* server.py line 39: the paths answered with the document
DesignatedPaths == {"/", "/clash.yaml", "/config.yaml", "/config"}

\* the paths requested
Paths == {"/", "/clash.yaml", "/favicon.ico"}

\* the lines of the end-to-end example, and the ss line with the port 8123
ExampleSS == "ss://YWVzLTI1Ni1nY206cGFzc0AxLjIuMy40OjguMTIz"

ExampleSS8123 == "ss://YWVzLTI1Ni1nY206cGFzc0AxLjIuMy40OjgxMjM="

ExampleOther == "not-a-proxy-line"

ExampleVmess == "vmess://eyJhZGQiOiIxLjIuMy40IiwicG9ydCI6NDQzLCJpZCI6InV1aWQxIn0="

\* the lines subscriptions are made of: the example's, an ss line without a
\* port, an ss line whose port is no integer, a vmess line whose payload is no
\* JSON, one whose payload is the JSON array [], and a line of another scheme
LinePool ==
    {ExampleSS8123, ExampleVmess, ExampleOther, ExampleSS,
     "ss://aes-256-gcm:pass@1.2.3.4",
     "ss://aes-256-gcm:pass@1.2.3.4:8x",
     "vmess://bm90IGpzb24=",
     "vmess://W10",
     "trojan://pass@1.2.3.4:443"}

\* "\n".join(lines)
RECURSIVE JoinLines(_)
JoinLines(lines) ==
    IF lines = <<>> THEN ""
    ELSE IF Len(lines) = 1 THEN lines[1]
    ELSE lines[1] \o "\n" \o JoinLines(Tail(lines))

\* a successful reply whose body is the base64 of the lines
ReplyOf(lines) == [failed |-> FALSE, ok |-> TRUE, text |-> b64encode(JoinLines(lines))]

ExampleReply == ReplyOf(<<ExampleSS, ExampleOther, ExampleVmess>>)

ExampleReply8123 == ReplyOf(<<ExampleSS8123, ExampleOther, ExampleVmess>>)

Subscriptions == UNION {[1..n -> LinePool] : n \in 0..MaxLines}

\* candidate lines of other schemes
OtherSchemeLines == {"trojan://pass@1.2.3.4:443", "ssr://YWJj", "vless://uuid1@1.2.3.4:443"}

\* lines with o put before position k
InsertAt(lines, k, o) == SubSeq(lines, 1, k - 1) \o <<o>> \o SubSeq(lines, k, Len(lines))

\* subscriptions of two proxy lines and one line of another scheme, before,
\* between or after them
MixedSubscriptions ==
    {InsertAt(<<a, b>>, k, o) :
        a \in {ExampleSS8123, ExampleVmess}, b \in {ExampleSS8123, ExampleVmess},
        k \in 1..3, o \in OtherSchemeLines}

\* the replies to a generation call
Replies ==
    {ReplyOf(lines) : lines \in Subscriptions \cup MixedSubscriptions}
    \cup {ExampleReply, ExampleReply8123}
    \cup {[failed |-> TRUE, ok |-> FALSE, text |-> ""],
          [failed |-> FALSE, ok |-> FALSE, text |-> "Not Found"],
          [failed |-> FALSE, ok |-> TRUE, text |-> " \n"],
          [failed |-> FALSE, ok |-> TRUE, text |-> "a"],
          [failed |-> FALSE, ok |-> TRUE, text |-> "Cg=="]}

\* the replies to the refreshes of the service
ServerReplies ==
    {ReplyOf(<<ExampleSS8123>>),
     ReplyOf(<<ExampleSS8123, ExampleVmess>>),
     [failed |-> TRUE, ok |-> FALSE, text |-> ""]}

\* a password with the characters that separate the parts of an ss:// line
\* percent-encoded
PercentEncode(p) ==
    Cat(LAMBDA i : CASE Ch(p, i) = "@" -> "%40"
                     [] Ch(p, i) = "#" -> "%23"
                     [] Ch(p, i) = "?" -> "%3F"
                     [] Ch(p, i) = "%" -> "%25"
                     [] OTHER          -> Ch(p, i),
        1, Len(p))

Methods == {"aes-256-gcm", "rc4-md5"}

Passwords == {"pass", "p:w", "p@ss"}

Hosts == {"1.2.3.4", "example.com"}

PortTexts == {"8443", "80"}

\* port texts that are no decimal integer
BadPortTexts == {"8.123", "8x", ""}

\* the cleartext line ss://method:password@host:port
SSLine(m, p, h, pt) == "ss://" \o m \o ":" \o PercentEncode(p) \o "@" \o h \o ":" \o pt

SSValid == {SSLine(m, p, h, pt) : m \in Methods, p \in Passwords, h \in Hosts, pt \in PortTexts}

SSBadPort == {SSLine(m, "pass", h, pt) : m \in Methods, h \in Hosts, pt \in BadPortTexts}

\* no '@'
SSNoAt == {"ss://" \o m \o ":pass" \o h \o ":" \o pt : m \in Methods, h \in Hosts, pt \in PortTexts}

\* no ':' in the authority
SSNoAuthColon == {"ss://" \o m \o "@" \o h \o ":" \o pt : m \in Methods, h \in Hosts, pt \in PortTexts}

\* no ':' before the port
SSNoPortColon == {"ss://" \o m \o ":pass@" \o h : m \in Methods, h \in Hosts}

\* the bracket forms of a host-port: well formed, without ']', and with a ']'
\* that no ':' follows
BracketGood == {"[::1]:8443"}

BracketNoClose == {"[::1:8443", "[::1", "[fe80:8443"}

BracketNoColon == {"[::1]8443", "[::1]"}

SSBracket ==
    {"ss://" \o m \o ":pass@" \o hp :
        m \in Methods, hp \in BracketGood \cup BracketNoClose \cup BracketNoColon}

\* the fields of a vmess payload, as JSON members; "" is an absent member
AddMembers == {"", "\"add\":\"1.2.3.4\""}

PortMembers == {"", "\"port\":443", "\"port\":0", "\"port\":\"443\"", "\"port\":\"44x\""}

IdMembers == {"", "\"id\":\"uuid1\""}

AidMembers == {"", "\"aid\":2", "\"aid\":\"x\""}

\* the JSON object of the members that are present
JsonObject(members) ==
    LET IsPresent(m) == m # ""
        present == SelectSeq(members, IsPresent)
    IN  "{" \o Cat(LAMBDA i : IF i = 1 THEN present[i] ELSE "," \o present[i], 1, Len(present))
            \o "}"

VmessLine(payload) == "vmess://" \o b64encode(payload)

VmessObjects ==
    {VmessLine(JsonObject(<<a, p, i, aid>>)) :
        a \in AddMembers, p \in PortMembers, i \in IdMembers, aid \in AidMembers}

\* payloads that are no base64, whose decoding is no JSON, and JSON values
\* that are no object
VmessNotBase64 == {"vmess://a", "vmess://eyJhZ"}

VmessNotJson == {VmessLine("not json"), VmessLine("{\"add\":"), VmessLine("{add:1}")}

VmessNotObject == {VmessLine("[]"), VmessLine("[1]"), VmessLine("null"), VmessLine("443"),
                   VmessLine("\"uuid1\"")}

\* passwords as they are, among them one that holds the text of an escape
RawPasswords == Passwords \cup {"p%41w"}

\* the credential string method:password@host:port
Credential(m, p, h, pt) == m \o ":" \o p \o "@" \o h \o ":" \o pt

\* the line ss://BASE64(credential string)
SSBase64Line(cred) == "ss://" \o b64encode(cred)

\* the cleartext line of the same credential string
SSClearLine(cred) == "ss://" \o cred

SSBase64 ==
    {SSBase64Line(Credential(m, p, h, pt)) :
        m \in Methods, p \in RawPasswords, h \in Hosts, pt \in PortTexts}

SSClear ==
    {SSClearLine(Credential(m, p, h, pt)) :
        m \in Methods, p \in RawPasswords, h \in Hosts, pt \in PortTexts}

(***************************************************************************)
(* base64.b64encode and base64.urlsafe_b64encode of bytes, and the texts   *)
(* handed to b64decode_any and to split_subscription_lines                 *)
(***************************************************************************)
\* byte i of bs, 0 past its end
ByteAt(bs, i) == IF i <= Len(bs) THEN bs[i] ELSE 0

GroupOfBytes(bs, g) ==
    Quantum(ByteAt(bs, 3 * g - 2), ByteAt(bs, 3 * g - 1), ByteAt(bs, 3 * g),
            3 * g - 1 > Len(bs), 3 * g > Len(bs))

b64encode_bytes(bs) == Cat(LAMBDA g : GroupOfBytes(bs, g), 1, (Len(bs) + 2) \div 3)

\* the translation of '+' to '-' and of '/' to '_' done by urlsafe_b64encode
UrlsafeAlphabet(s) ==
    Cat(LAMBDA i : CASE Ch(s, i) = "+" -> "-"
                     [] Ch(s, i) = "/" -> "_"
                     [] OTHER          -> Ch(s, i),
        1, Len(s))

urlsafe_b64encode(bs) == UrlsafeAlphabet(b64encode_bytes(bs))

\* s.rstrip("=") of an encoding, which ends in at most two '='
StripPadding(s) ==
    IF Len(s) >= 2 /\ SubSeq(s, Len(s) - 1, Len(s)) = "==" THEN SubSeq(s, 1, Len(s) - 2)
    ELSE IF Len(s) >= 1 /\ Ch(s, Len(s)) = "=" THEN SubSeq(s, 1, Len(s) - 1)
    ELSE s

\* the four encodings of bs: either alphabet, padding kept or stripped
Encodings(bs) ==
    {b64encode_bytes(bs), urlsafe_b64encode(bs),
     StripPadding(b64encode_bytes(bs)), StripPadding(urlsafe_b64encode(bs))}

\* the longest byte string encoded
MaxBytes == 3

\* line feed, 'A', and two bytes whose sextets are 62 and 63
BytePool == {10, 65, 251, 255}

ByteStrings == UNION {[1..n -> BytePool] : n \in 0..MaxBytes}

RoundTripTexts == UNION {Encodings(bs) : bs \in ByteStrings}

\* texts that are no base64: a lone character, an incomplete quantum, pads
\* only, characters outside both alphabets
NotBase64Texts == {"a", "eyJhZ", "a===", "=", "####a"}

\* decoded texts of subscription bodies: line ends of each kind, blank
\* lines, lines to trim and lines without "://"
BodyTexts ==
    {"ss://a\nvmess://b",
     "  ss://a  \r\n\r\nnot-a-proxy-line\nvmess://b\n",
     "vmess://b\rss://a\ftrojan://c \n ss://a",
     "\n\n",
     "not-a-proxy-line"}

DecodeTexts ==
    RoundTripTexts \cup NotBase64Texts \cup {b64encode(t) : t \in BodyTexts}
    \cup {"", "  ", " YQ== ", "YQ"}

\* cleartext lines whose method, password or host is empty
SSEmptyField ==
    {"ss://:pass@1.2.3.4:8443", "ss://aes-256-gcm:@1.2.3.4:8443", "ss://aes-256-gcm:pass@:8443"}

\* what follows ss:// before any query and fragment: a cleartext credential
\* string, its base64, the base64 of one without an escape, and a remainder
\* whose part before the '@' has no ':'
QueryBodies ==
    {Credential("aes-256-gcm", "p%41w", "1.2.3.4", "8443"),
     b64encode(Credential("aes-256-gcm", "p%41w", "1.2.3.4", "8443")),
     b64encode(Credential("rc4-md5", "pass", "example.com", "80")),
     "rc4-md5@example.com:80"}

\* the query of a line, "" when it has none
Queries == {"", "?plugin=obfs-local", "?a:b@c:1"}

\* the fragment of a line, "" when it has none
Fragments == {"", "#tag", "#a%20b"}

SSQuery == {"ss://" \o b \o q \o f : b \in QueryBodies, q \in Queries, f \in Fragments}

\* the members of a vmess payload that decide its TLS keys and its transport
\* blocks; "" is an absent member
TlsMembers == {"", "\"tls\":\"tls\"", "\"tls\":\"TLS\"", "\"tls\":\"none\"", "\"tls\":true"}

SniMembers == {"", "\"sni\":\"\"", "\"sni\":\"sni.example\""}

ServernameMembers == {"", "\"servername\":\"sn.example\""}

HostMembers == {"", "\"host\":\"h.example\""}

NetMembers == {"", "\"net\":\"ws\"", "\"net\":\"grpc\"", "\"net\":\"h2\"", "\"net\":\"WS\""}

PathMembers == {"", "\"path\":\"/p\""}

ServiceNameMembers == {"", "\"serviceName\":\"svc\""}

\* the payload with add, port and id and the given further members
VmessWith(members) ==
    VmessLine(JsonObject(<<"\"add\":\"1.2.3.4\"", "\"port\":443", "\"id\":\"uuid1\"">> \o members))

VmessTls ==
    {VmessWith(<<t, s, sn, h>>) :
        t \in TlsMembers, s \in SniMembers, sn \in ServernameMembers, h \in HostMembers}

VmessNet ==
    {VmessWith(<<n, pa, sv, h, s>>) :
        n \in NetMembers, pa \in PathMembers, sv \in ServiceNameMembers, h \in HostMembers,
        s \in SniMembers \ {"\"sni\":\"\""}}

\* the longest list of descriptors assembled
MaxNodes == 3

\* an ss descriptor of the given name and server
ProxyNode(name, server) ==
    Node(name, [name |-> name, type |-> "ss", server |-> server, port |-> 8443,
                cipher |-> "aes-256-gcm", password |-> "pass", udp |-> TRUE])

\* descriptors named A and B, and a second one named A
NodePool == {ProxyNode("A", "1.2.3.4"), ProxyNode("B", "example.com"), ProxyNode("A", "5.6.7.8")}

NodeLists == UNION {[1..n -> NodePool] : n \in 0..MaxNodes}

\* the ports assembled with
ListenPorts == {1082, 7890}

\* the lines handed to the parsers
ParseLines ==
    SSValid \cup SSBadPort \cup SSNoAt \cup SSNoAuthColon \cup SSNoPortColon \cup SSBracket
    \cup VmessObjects \cup VmessNotBase64 \cup VmessNotJson \cup VmessNotObject
    \cup SSBase64 \cup SSClear \cup SSEmptyField \cup SSQuery
    \cup VmessTls \cup VmessNet
    \cup {ExampleSS, ExampleSS8123, ExampleVmess, ExampleOther, "trojan://pass@1.2.3.4:443"}

(***************************************************************************)
(* Initial states                                                          *)
(***************************************************************************)
\* server.py lines 15-17, no request being handled
ServerInit ==
    /\ latest = [text |-> <<>>, error |-> "", nodes |-> 0, updated |-> 0]
    /\ lock = "free"
    /\ stop_event = FALSE
    /\ now = 1
    /\ rpc = "refresh_once"
    /\ rresult = None
    /\ hpc = [h \in Handlers |-> "idle"]
    /\ hpath = [h \in Handlers |-> ""]
    /\ hmethod = [h \in Handlers |-> ""]
    /\ fetches = 0
    /\ htext = [h \in Handlers |-> <<>>]
    /\ herr = [h \in Handlers |-> ""]
    /\ hresp = [h \in Handlers |-> [status |-> 0, text |-> <<>>, msg |-> ""]]
    /\ committed = [text |-> <<>>, error |-> ""]
    /\ outcomes = {generate_from_url(r) : r \in ServerReplies}

\* the service is not run
ServerOff ==
    /\ latest = [text |-> <<>>, error |-> "", nodes |-> 0, updated |-> 0]
    /\ lock = "free"
    /\ stop_event = FALSE
    /\ now = 1
    /\ rpc = "off"
    /\ rresult = None
    /\ hpc = [h \in Handlers |-> "off"]
    /\ hpath = [h \in Handlers |-> ""]
    /\ hmethod = [h \in Handlers |-> ""]
    /\ fetches = 0
    /\ htext = [h \in Handlers |-> <<>>]
    /\ herr = [h \in Handlers |-> ""]
    /\ hresp = [h \in Handlers |-> [status |-> 0, text |-> <<>>, msg |-> ""]]
    /\ committed = [text |-> <<>>, error |-> ""]
    /\ outcomes = {}

\* no generation call
GenIdle ==
    /\ reply = [failed |-> TRUE, ok |-> FALSE, text |-> ""]
    /\ out = None
    /\ genpc = "off"

\* no parser call
ParseIdle ==
    /\ line = ""
    /\ node = None
    /\ called = "off"

\* no assembly call
BuildIdle ==
    /\ bnodes = <<>>
    /\ bport = 0
    /\ ballow = FALSE
    /\ bcfg = <<>>
    /\ bcalled = "off"

\* no file at the path
NoFile == [exists |-> FALSE, text |-> <<>>]

\* the file written with text
FileOf(text) == [exists |-> TRUE, text |-> text]

\* None, as an entry of serve_state
NoObject == 0

\* ui.py lines 482-487: serve_state
ServeStateNone ==
    [httpd |-> NoObject, stop_event |-> NoObject, latest |-> NoObject, lock |-> NoObject]

\* ui.py lines 979-982: serve_state with the objects of session s
ServeStateOf(s) == [httpd |-> s, stop_event |-> s, latest |-> s, lock |-> s]

\* ui.py line 916: latest
EmptyLatest == [text |-> <<>>, error |-> "", nodes |-> 0]

NoResponse == [session |-> NoObject, status |-> 0, text |-> <<>>, msg |-> ""]

\* ui.py lines 479-487: no local server was started
NoSessions ==
    /\ serve_state = ServeStateNone
    /\ serve_enabled_var = FALSE
    /\ sessions = 0
    /\ surl = [s \in Sessions |-> ""]
    /\ slatest = [s \in Sessions |-> EmptyLatest]
    /\ sstop = [s \in Sessions |-> FALSE]
    /\ shttpd = [s \in Sessions |-> "none"]
    /\ srpc = [s \in Sessions |-> "off"]
    /\ srresult = [s \in Sessions |-> None]
    /\ sresp = NoResponse
    /\ spublished = [s \in Sessions |-> {}]
    /\ after_queue = <<>>

\* no GUI
GuiIdle ==
    /\ NoSessions
    /\ read_inputs = {}
    /\ gmodule = "off"
    /\ latest_yaml = <<>>
    /\ output_text = <<>>
    /\ status = ""
    /\ path_var = ""
    /\ file = NoFile
    /\ gop = ""
    /\ attempted = <<>>
    /\ gen_results = {}

Init == ServerInit /\ GenIdle /\ ParseIdle /\ BuildIdle /\ GuiIdle

(***************************************************************************)
(* src/server.py refresh_once and refresh_loop, one step per statement     *)
(***************************************************************************)
\* str(e)
ErrStr(e) == IF e.exc = "InternalError" THEN e.msg ELSE e.exc

\* a call that sends its request once more when the request fails
RefreshGenerateRetry ==
    /\ rpc = "refresh_once"
    /\ \E res \in outcomes :
          /\ rresult' = res
          /\ rpc' = IF res.kind = "Raise" THEN "except_lock" ELSE "lock"
          /\ fetches' = IF res = InternalError(MsgRequestFailed) THEN fetches + 2 ELSE fetches + 1
    /\ UNCHANGED <<latest, lock, stop_event, now, hpc, hpath, htext, herr, hresp, committed,
                   outcomes>>
    /\ UNCHANGED <<hmethod, genVars, parseVars, buildVars, guiVars>>

\* lines 20-22: the call of generate_from_url(url), which sends one request
\* (src/core.py lines 232 and 45) and returns or raises
RefreshGenerate ==
    /\ rpc = "refresh_once"
    /\ \E res \in outcomes :
          /\ rresult' = res
          /\ rpc' = IF res.kind = "Raise" THEN "except_lock" ELSE "lock"
    /\ fetches' = fetches + 1
    /\ UNCHANGED <<latest, lock, stop_event, now, hpc, hpath, htext, herr, hresp, committed,
                   outcomes>>
    /\ UNCHANGED <<hmethod, genVars, parseVars, buildVars, guiVars>>

\* line 23: with lock
RefreshFailLock ==
    /\ rpc = "except_lock"
    /\ lock = "free"
    /\ lock' = "refresh"
    /\ rpc' = "except_error"
    /\ UNCHANGED <<latest, stop_event, now, rresult, hpc, hpath, htext, herr, hresp, committed, outcomes>>
    /\ UNCHANGED <<hmethod, fetches, genVars, parseVars, buildVars, guiVars>>

\* a failed refresh that drops the published text with the error it records
RefreshFailErrorClearsText ==
    /\ rpc = "except_error"
    /\ latest' = [latest EXCEPT !.error = ErrStr(rresult), !.text = <<>>]
    /\ rpc' = "except_unlock"
    /\ UNCHANGED <<lock, stop_event, now, rresult, hpc, hpath, htext, herr, hresp, committed, outcomes>>
    /\ UNCHANGED <<hmethod, fetches, genVars, parseVars, buildVars, guiVars>>

\* line 24: latest["error"] = str(e)
RefreshFailError ==
    /\ rpc = "except_error"
    /\ latest' = [latest EXCEPT !.error = ErrStr(rresult)]
    /\ rpc' = "except_unlock"
    /\ UNCHANGED <<lock, stop_event, now, rresult, hpc, hpath, htext, herr, hresp, committed, outcomes>>
    /\ UNCHANGED <<hmethod, fetches, genVars, parseVars, buildVars, guiVars>>

\* lines 24-25: the end of the with block, and return
RefreshFailUnlock ==
    /\ rpc = "except_unlock"
    /\ lock' = "free"
    /\ rpc' = "wait"
    /\ rresult' = None
    /\ committed' = [text |-> latest.text, error |-> latest.error]
    /\ UNCHANGED <<latest, stop_event, now, hpc, hpath, htext, herr, hresp, outcomes>>
    /\ UNCHANGED <<hmethod, fetches, genVars, parseVars, buildVars, guiVars>>

\* line 26: with lock
RefreshLock ==
    /\ rpc = "lock"
    /\ lock = "free"
    /\ lock' = "refresh"
    /\ rpc' = "text"
    /\ UNCHANGED <<latest, stop_event, now, rresult, hpc, hpath, htext, herr, hresp, committed, outcomes>>
    /\ UNCHANGED <<hmethod, fetches, genVars, parseVars, buildVars, guiVars>>

\* line 27: latest["text"] = yaml_text
RefreshText ==
    /\ rpc = "text"
    /\ latest' = [latest EXCEPT !.text = rresult.yaml_text]
    /\ rpc' = "error"
    /\ UNCHANGED <<lock, stop_event, now, rresult, hpc, hpath, htext, herr, hresp, committed, outcomes>>
    /\ UNCHANGED <<hmethod, fetches, genVars, parseVars, buildVars, guiVars>>

\* line 28: latest["error"] = ""
RefreshError ==
    /\ rpc = "error"
    /\ latest' = [latest EXCEPT !.error = ""]
    /\ rpc' = "nodes"
    /\ UNCHANGED <<lock, stop_event, now, rresult, hpc, hpath, htext, herr, hresp, committed, outcomes>>
    /\ UNCHANGED <<hmethod, fetches, genVars, parseVars, buildVars, guiVars>>

\* line 29: latest["nodes"] = nodes
RefreshNodes ==
    /\ rpc = "nodes"
    /\ latest' = [latest EXCEPT !.nodes = rresult.nodes]
    /\ rpc' = "updated"
    /\ UNCHANGED <<lock, stop_event, now, rresult, hpc, hpath, htext, herr, hresp, committed, outcomes>>
    /\ UNCHANGED <<hmethod, fetches, genVars, parseVars, buildVars, guiVars>>

\* line 30: latest["updated"] = time.time()
RefreshUpdated ==
    /\ rpc = "updated"
    /\ latest' = [latest EXCEPT !.updated = now]
    /\ rpc' = "unlock"
    /\ UNCHANGED <<lock, stop_event, now, rresult, hpc, hpath, htext, herr, hresp, committed, outcomes>>
    /\ UNCHANGED <<hmethod, fetches, genVars, parseVars, buildVars, guiVars>>

\* line 30: the end of the with block
RefreshUnlock ==
    /\ rpc = "unlock"
    /\ lock' = "free"
    /\ rpc' = "wait"
    /\ rresult' = None
    /\ committed' = [text |-> latest.text, error |-> latest.error]
    /\ UNCHANGED <<latest, stop_event, now, hpc, hpath, htext, herr, hresp, outcomes>>
    /\ UNCHANGED <<hmethod, fetches, genVars, parseVars, buildVars, guiVars>>

\* a loop that goes on whether the event is set or not
RefreshAgainWhateverTheEvent ==
    /\ rpc = "wait"
    /\ rpc' = "refresh_once"
    /\ fetches' = 0
    /\ UNCHANGED <<latest, lock, stop_event, now, rresult, hpc, hpath, htext, herr, hresp,
                   committed, outcomes>>
    /\ UNCHANGED <<hmethod, genVars, parseVars, buildVars, guiVars>>

\* line 34: stop_event.wait(max(10, interval)) times out, the loop goes on
\* to the refresh_once call of the next cycle
RefreshAgain ==
    /\ rpc = "wait"
    /\ ~stop_event
    /\ rpc' = "refresh_once"
    /\ fetches' = 0
    /\ UNCHANGED <<latest, lock, stop_event, now, rresult, hpc, hpath, htext, herr, hresp,
                   committed, outcomes>>
    /\ UNCHANGED <<hmethod, genVars, parseVars, buildVars, guiVars>>

\* line 34: stop_event.wait returns True, the loop ends
RefreshExit ==
    /\ rpc = "wait"
    /\ stop_event
    /\ rpc' = "exit"
    /\ UNCHANGED <<latest, lock, stop_event, now, rresult, hpc, hpath, htext, herr, hresp,
                   committed, outcomes>>
    /\ UNCHANGED <<hmethod, fetches, genVars, parseVars, buildVars, guiVars>>

\* lines 69-72: KeyboardInterrupt ends serve_forever, finally sets the event
Shutdown ==
    /\ ~stop_event
    /\ stop_event' = TRUE
    /\ UNCHANGED <<latest, lock, now, rpc, rresult, hpc, hpath, htext, herr, hresp, committed, outcomes>>
    /\ UNCHANGED <<hmethod, fetches, genVars, parseVars, buildVars, guiVars>>

\* the clock of time.time() advances
Tick ==
    /\ now < MaxTime
    /\ now' = now + 1
    /\ UNCHANGED <<latest, lock, stop_event, rpc, rresult, hpc, hpath, htext, herr, hresp,
                   committed, outcomes>>
    /\ UNCHANGED <<hmethod, fetches, genVars, parseVars, buildVars, guiVars>>

(***************************************************************************)
(* src/server.py Handler.do_GET, one step per statement                    *)
(***************************************************************************)
\* the methods requested other than GET
OtherMethods == {"POST", "HEAD"}

\* server.py line 37: Handler defines do_GET only, and BaseHTTPRequestHandler
\* answers a request of any other method with 501, Unsupported method
Unsupported(h, method, path) ==
    /\ hpc[h] = "idle"
    /\ ~stop_event
    /\ hpath' = [hpath EXCEPT ![h] = path]
    /\ hmethod' = [hmethod EXCEPT ![h] = method]
    /\ hresp' = [hresp EXCEPT ![h] = [status |-> 501, text |-> <<>>, msg |-> "Unsupported method"]]
    /\ hpc' = [hpc EXCEPT ![h] = "sent"]
    /\ UNCHANGED <<latest, lock, stop_event, now, rpc, rresult, htext, herr, committed, outcomes>>
    /\ UNCHANGED <<fetches, genVars, parseVars, buildVars, guiVars>>

\* the server hands a GET request for path to the handler thread h
Request(h, path) ==
    /\ hpc[h] = "idle"
    /\ ~stop_event
    /\ hpath' = [hpath EXCEPT ![h] = path]
    /\ hmethod' = [hmethod EXCEPT ![h] = "GET"]
    /\ hpc' = [hpc EXCEPT ![h] = "do_GET"]
    /\ UNCHANGED <<latest, lock, stop_event, now, rpc, rresult, htext, herr, hresp, committed, outcomes>>
    /\ UNCHANGED <<fetches, genVars, parseVars, buildVars, guiVars>>

\* lines 39-42: not a designated path
NotFound(h) ==
    /\ hpc[h] = "do_GET"
    /\ hpath[h] \notin DesignatedPaths
    /\ hresp' = [hresp EXCEPT ![h] = [status |-> 404, text |-> <<>>, msg |-> ""]]
    /\ hpc' = [hpc EXCEPT ![h] = "sent"]
    /\ UNCHANGED <<latest, lock, stop_event, now, rpc, rresult, hpath, htext, herr, committed, outcomes>>
    /\ UNCHANGED <<hmethod, fetches, genVars, parseVars, buildVars, guiVars>>

\* a handler that reads the slot without waiting for the lock
HandlerLockNoWait(h) ==
    /\ hpc[h] = "do_GET"
    /\ hpath[h] \in DesignatedPaths
    /\ lock' = "handler"
    /\ hpc' = [hpc EXCEPT ![h] = "text"]
    /\ UNCHANGED <<latest, stop_event, now, rpc, rresult, hpath, htext, herr, hresp, committed, outcomes>>
    /\ UNCHANGED <<hmethod, fetches, genVars, parseVars, buildVars, guiVars>>

\* line 43: with lock
HandlerLock(h) ==
    /\ hpc[h] = "do_GET"
    /\ hpath[h] \in DesignatedPaths
    /\ lock = "free"
    /\ lock' = "handler"
    /\ hpc' = [hpc EXCEPT ![h] = "text"]
    /\ UNCHANGED <<latest, stop_event, now, rpc, rresult, hpath, htext, herr, hresp, committed, outcomes>>
    /\ UNCHANGED <<hmethod, fetches, genVars, parseVars, buildVars, guiVars>>

\* line 44: text = latest["text"]
HandlerText(h) ==
    /\ hpc[h] = "text"
    /\ htext' = [htext EXCEPT ![h] = latest.text]
    /\ hpc' = [hpc EXCEPT ![h] = "error"]
    /\ UNCHANGED <<latest, lock, stop_event, now, rpc, rresult, hpath, herr, hresp, committed, outcomes>>
    /\ UNCHANGED <<hmethod, fetches, genVars, parseVars, buildVars, guiVars>>

\* line 45: err = latest["error"], and the end of the with block
HandlerError(h) ==
    /\ hpc[h] = "error"
    /\ herr' = [herr EXCEPT ![h] = latest.error]
    /\ lock' = "free"
    /\ hpc' = [hpc EXCEPT ![h] = "respond"]
    /\ UNCHANGED <<latest, stop_event, now, rpc, rresult, hpath, htext, hresp, committed, outcomes>>
    /\ UNCHANGED <<hmethod, fetches, genVars, parseVars, buildVars, guiVars>>

\* the text sent when there is no error message
MsgNotReady == "not ready"

\* a responder that sends the document whenever there is one
HandlerRespondTextFirst(h) ==
    /\ hpc[h] = "respond"
    /\ hresp' = [hresp EXCEPT ![h] =
                    IF htext[h] = <<>>
                    THEN [status |-> 503, text |-> <<>>,
                          msg |-> IF herr[h] # "" THEN herr[h] ELSE MsgNotReady]
                    ELSE [status |-> 200, text |-> htext[h], msg |-> ""]]
    /\ hpc' = [hpc EXCEPT ![h] = "sent"]
    /\ UNCHANGED <<latest, lock, stop_event, now, rpc, rresult, hpath, htext, herr, committed, outcomes>>
    /\ UNCHANGED <<hmethod, fetches, genVars, parseVars, buildVars, guiVars>>

\* lines 46-57: 503 with the error or the not-ready text, else 200 with the document
HandlerRespond(h) ==
    /\ hpc[h] = "respond"
    /\ hresp' = [hresp EXCEPT ![h] =
                    IF herr[h] # "" \/ htext[h] = <<>>
                    THEN [status |-> 503, text |-> <<>>,
                          msg |-> IF herr[h] # "" THEN herr[h] ELSE MsgNotReady]
                    ELSE [status |-> 200, text |-> htext[h], msg |-> ""]]
    /\ hpc' = [hpc EXCEPT ![h] = "sent"]
    /\ UNCHANGED <<latest, lock, stop_event, now, rpc, rresult, hpath, htext, herr, committed, outcomes>>
    /\ UNCHANGED <<hmethod, fetches, genVars, parseVars, buildVars, guiVars>>

\* do_GET returns, the thread is free for the next request
HandlerReturn(h) ==
    /\ hpc[h] = "sent"
    /\ hpc' = [hpc EXCEPT ![h] = "idle"]
    /\ hpath' = [hpath EXCEPT ![h] = ""]
    /\ hmethod' = [hmethod EXCEPT ![h] = ""]
    /\ htext' = [htext EXCEPT ![h] = <<>>]
    /\ herr' = [herr EXCEPT ![h] = ""]
    /\ hresp' = [hresp EXCEPT ![h] = [status |-> 0, text |-> <<>>, msg |-> ""]]
    /\ UNCHANGED <<latest, lock, stop_event, now, rpc, rresult, committed, outcomes>>
    /\ UNCHANGED <<fetches, genVars, parseVars, buildVars, guiVars>>

Next ==
    \/ RefreshGenerate
    \/ RefreshFailLock
    \/ RefreshFailError
    \/ RefreshFailUnlock
    \/ RefreshLock
    \/ RefreshText
    \/ RefreshError
    \/ RefreshNodes
    \/ RefreshUpdated
    \/ RefreshUnlock
    \/ RefreshAgain
    \/ RefreshExit
    \/ Shutdown
    \/ Tick
    \/ \E h \in Handlers, path \in Paths : Request(h, path)
    \/ \E h \in Handlers, method \in OtherMethods, path \in Paths : Unsupported(h, method, path)
    \/ \E h \in Handlers : NotFound(h)
    \/ \E h \in Handlers : HandlerLock(h)
    \/ \E h \in Handlers : HandlerText(h)
    \/ \E h \in Handlers : HandlerError(h)
    \/ \E h \in Handlers : HandlerRespond(h)
    \/ \E h \in Handlers : HandlerReturn(h)

Spec == Init /\ [][Next]_vars

\* a step of the refresh thread
RefreshStep ==
    \/ RefreshGenerate
    \/ RefreshFailLock
    \/ RefreshFailError
    \/ RefreshFailUnlock
    \/ RefreshLock
    \/ RefreshText
    \/ RefreshError
    \/ RefreshNodes
    \/ RefreshUpdated
    \/ RefreshUnlock
    \/ RefreshAgain
    \/ RefreshExit

\* a step of the handler thread h inside do_GET
HandlerStep(h) ==
    \/ NotFound(h)
    \/ HandlerLock(h)
    \/ HandlerText(h)
    \/ HandlerError(h)
    \/ HandlerRespond(h)
    \/ HandlerReturn(h)

\* the steps that bear on the end of the refresh loop: those of the
\* threads, the GET requests and the shutdown
FairNext ==
    \/ RefreshStep
    \/ Shutdown
    \/ \E h \in Handlers, path \in Paths : Request(h, path)
    \/ \E h \in Handlers : HandlerStep(h)

\* the service with its threads scheduled: a thread that can take a step
\* takes one in the end
SpecFair ==
    /\ Init
    /\ [][FairNext]_vars
    /\ WF_vars(RefreshStep)
    /\ \A h \in Handlers : WF_vars(HandlerStep(h))

(***************************************************************************)
(* One call of generate_from_url, on each reply of the subscription server *)
(***************************************************************************)
GenInit ==
    /\ ServerOff
    /\ GuiIdle
    /\ ParseIdle
    /\ BuildIdle
    /\ reply \in Replies
    /\ out = None
    /\ genpc = "call"

\* src/core.py lines 228-246
Generate ==
    /\ genpc = "call"
    /\ out' = generate_from_url(reply)
    /\ genpc' = "done"
    /\ UNCHANGED <<reply, serverVars, parseVars, buildVars, guiVars>>

GenNext == Generate

SpecGen == GenInit /\ [][GenNext]_vars

(***************************************************************************)
(* One call of a parser, on each line                                      *)
(***************************************************************************)
ParseInit ==
    /\ ServerOff
    /\ GuiIdle
    /\ GenIdle
    /\ BuildIdle
    /\ line \in ParseLines
    /\ node = None
    /\ called = ""

\* src/core.py lines 63-119
CallParseSS ==
    /\ called = ""
    /\ StartsWith(line, "ss://")
    /\ node' = parse_ss(line)
    /\ called' = "parse_ss"
    /\ UNCHANGED <<line, serverVars, genVars, buildVars, guiVars>>

\* src/core.py lines 122-182
CallParseVmess ==
    /\ called = ""
    /\ StartsWith(line, "vmess://")
    /\ node' = parse_vmess(line)
    /\ called' = "parse_vmess"
    /\ UNCHANGED <<line, serverVars, genVars, buildVars, guiVars>>

\* src/core.py lines 185-191
CallParseNode ==
    /\ called = ""
    /\ node' = parse_node(line)
    /\ called' = "parse_node"
    /\ UNCHANGED <<line, serverVars, genVars, buildVars, guiVars>>

ParseNext == CallParseSS \/ CallParseVmess \/ CallParseNode

SpecParse == ParseInit /\ [][ParseNext]_vars

(***************************************************************************)
(* One call of b64decode_any or of split_subscription_lines, on each text  *)
(***************************************************************************)
DecodeInit ==
    /\ ServerOff
    /\ GuiIdle
    /\ GenIdle
    /\ BuildIdle
    /\ line \in DecodeTexts
    /\ node = None
    /\ called = ""

\* what a call of b64decode_any returns or raises
decoded_bytes(r) == IF r.ok THEN [kind |-> "Bytes", bytes |-> r.bytes] ELSE Raise("binascii.Error")

\* src/core.py lines 22-32
CallB64DecodeAny ==
    /\ called = ""
    /\ node' = decoded_bytes(b64decode_any(line))
    /\ called' = "b64decode_any"
    /\ UNCHANGED <<line, serverVars, genVars, buildVars, guiVars>>

\* src/core.py lines 53-60
CallSplitSubscriptionLines ==
    /\ called = ""
    /\ node' = split_subscription_lines(line)
    /\ called' = "split_subscription_lines"
    /\ UNCHANGED <<line, serverVars, genVars, buildVars, guiVars>>

DecodeNext == CallB64DecodeAny \/ CallSplitSubscriptionLines

SpecDecode == DecodeInit /\ [][DecodeNext]_vars

(***************************************************************************)
(* One call of build_clash_config, of src/core.py or of                    *)
(* src/gen_clash_from_url.py, on each list of descriptors                  *)
(***************************************************************************)
BuildInit ==
    /\ ServerOff
    /\ GuiIdle
    /\ GenIdle
    /\ ParseIdle
    /\ bnodes \in NodeLists
    /\ bport \in ListenPorts
    /\ ballow \in BOOLEAN
    /\ bcfg = <<>>
    /\ bcalled = ""

\* a call that assembles the descriptors with each name kept once
CallBuildClashConfigByName ==
    /\ bcalled = ""
    /\ bcfg' = build_clash_config(
                   SelectSeq([i \in DOMAIN bnodes |->
                                 IF \E j \in 1..(i - 1) : bnodes[j].name = bnodes[i].name
                                 THEN None ELSE bnodes[i]],
                             LAMBDA n : n # None),
                   bport, ballow)
    /\ bcalled' = "core"
    /\ UNCHANGED <<bnodes, bport, ballow, serverVars, genVars, parseVars, guiVars>>

\* a call whose document sends the unmatched traffic to a group AUTO
CallBuildClashConfigMatchAuto ==
    /\ bcalled = ""
    /\ bcfg' = [build_clash_config(bnodes, bport, ballow) EXCEPT
                   !["rules"] = <<"GEOIP,LAN,DIRECT,no-resolve", "GEOIP,CN,DIRECT", "MATCH,AUTO">>]
    /\ bcalled' = "core"
    /\ UNCHANGED <<bnodes, bport, ballow, serverVars, genVars, parseVars, guiVars>>

\* src/core.py lines 194-225
CallBuildClashConfig ==
    /\ bcalled = ""
    /\ bcfg' = build_clash_config(bnodes, bport, ballow)
    /\ bcalled' = "core"
    /\ UNCHANGED <<bnodes, bport, ballow, serverVars, genVars, parseVars, guiVars>>

\* src/gen_clash_from_url.py lines 200-238
CallGenBuildClashConfig ==
    /\ bcalled = ""
    /\ bcfg' = gen_clash_from_url_build_clash_config(bnodes, bport, ballow)
    /\ bcalled' = "gen_clash_from_url"
    /\ UNCHANGED <<bnodes, bport, ballow, serverVars, genVars, parseVars, guiVars>>

BuildNext == CallBuildClashConfig \/ CallGenBuildClashConfig

SpecBuild == BuildInit /\ [][BuildNext]_vars

(***************************************************************************)
(* run_gui of src/ui.py and of src/gen_clash_from_url.py: the callbacks    *)
(* that generate, edit and save the document, one step per callback; the   *)
(* local server of src/ui.py is not started.  A text is a yaml_text of     *)
(* generate_from_url, <<>> for "", or a text typed into the output box.    *)
(***************************************************************************)
\* the URLs typed into the URL box
GuiUrls == {"", "https://a.example/sub"}

\* the paths typed into the path box, or chosen
GuiPaths == {"", "/out/clash.yaml"}

\* the texts typed into the output box: nothing, a space, a document
TypedTexts == {<<>>, <<[typed |-> " "]>>, <<[typed |-> "edited"]>>}

\* not text.strip()
IsBlank(text) == text \in {<<>>, <<[typed |-> " "]>>}

\* how the write of a save ends: the file written, an exception before the
\* file is opened, an exception after it was opened for writing
WriteEnds == {"written", "failed", "failed_open"}

\* ui.py lines 471-480 and gen_clash_from_url.py lines 278-282
SaveInit ==
    /\ ServerOff
    /\ GenIdle
    /\ ParseIdle
    /\ BuildIdle
    /\ NoSessions
    /\ read_inputs = {}
    /\ gmodule \in {"ui", "gen_clash_from_url"}
    /\ latest_yaml = <<>>
    /\ output_text = <<>>
    /\ status = "ready"
    /\ path_var = "/out/clash.yaml"
    /\ file = NoFile
    /\ gop = ""
    /\ attempted = <<>>
    /\ gen_results = {generate_from_url(r) : r \in ServerReplies}

\* ui.py lines 689-708 and gen_clash_from_url.py lines 316-331: generate()
GuiGenerate(url) ==
    /\ gmodule \in {"ui", "gen_clash_from_url"}
    /\ gop' = "generate"
    /\ \/ /\ Strip(url) = ""
          /\ status' = "error_url"
          /\ UNCHANGED <<latest_yaml, output_text>>
       \/ /\ Strip(url) # ""
          /\ \E res \in gen_results :
                IF res.kind = "Raise"
                THEN /\ status' = "error_generate"
                     /\ UNCHANGED <<latest_yaml, output_text>>
                ELSE /\ latest_yaml' = res.yaml_text
                     /\ output_text' = res.yaml_text
                     /\ status' = "generated"
    /\ UNCHANGED <<gmodule, path_var, file, attempted, gen_results>>
    /\ UNCHANGED <<serverVars, genVars, parseVars, buildVars, sessionVars>>

\* the text save_yaml writes: ui.py line 715, gen_clash_from_url.py line 345
SaveText == IF gmodule = "ui" THEN output_text ELSE latest_yaml

\* save_yaml finds nothing to write: ui.py line 716, gen_clash_from_url.py line 338
NothingToSave == IF gmodule = "ui" THEN IsBlank(output_text) ELSE latest_yaml = <<>>

\* a save_yaml whose failed write empties the document held in memory
GuiSaveYamlForgetting(end) ==
    /\ gmodule \in {"ui", "gen_clash_from_url"}
    /\ gop' = "save_yaml"
    /\ IF Strip(path_var) = ""
       THEN /\ status' = "error_path"
            /\ UNCHANGED <<latest_yaml, file, attempted>>
       ELSE IF NothingToSave
       THEN /\ status' = "error_not_generated"
            /\ UNCHANGED <<latest_yaml, file, attempted>>
       ELSE IF end # "written"
       THEN /\ status' = "error_save"
            /\ attempted' = SaveText
            /\ file' = IF end = "failed_open" THEN FileOf(<<>>) ELSE file
            /\ latest_yaml' = <<>>
       ELSE /\ status' = "saved"
            /\ attempted' = SaveText
            /\ file' = FileOf(SaveText)
            /\ latest_yaml' = IF gmodule = "ui" THEN SaveText ELSE latest_yaml
    /\ UNCHANGED <<gmodule, output_text, path_var, gen_results>>
    /\ UNCHANGED <<serverVars, genVars, parseVars, buildVars, sessionVars>>

\* ui.py lines 710-730 and gen_clash_from_url.py lines 333-349: save_yaml()
GuiSaveYaml(end) ==
    /\ gmodule \in {"ui", "gen_clash_from_url"}
    /\ gop' = "save_yaml"
    /\ IF Strip(path_var) = ""
       THEN /\ status' = "error_path"
            /\ UNCHANGED <<latest_yaml, file, attempted>>
       ELSE IF NothingToSave
       THEN /\ status' = "error_not_generated"
            /\ UNCHANGED <<latest_yaml, file, attempted>>
       ELSE IF end # "written"
       THEN /\ status' = "error_save"
            /\ attempted' = SaveText
            /\ file' = IF end = "failed_open" THEN FileOf(<<>>) ELSE file
            /\ UNCHANGED latest_yaml
       ELSE /\ status' = "saved"
            /\ attempted' = SaveText
            /\ file' = FileOf(SaveText)
            /\ latest_yaml' = IF gmodule = "ui" THEN SaveText ELSE latest_yaml
    /\ UNCHANGED <<gmodule, output_text, path_var, gen_results>>
    /\ UNCHANGED <<serverVars, genVars, parseVars, buildVars, sessionVars>>

\* the user types into the output box of ui.py (gen_clash_from_url.py line
\* 376 disables its box)
EditOutput(text) ==
    /\ gmodule = "ui"
    /\ output_text' = text
    /\ gop' = "edit"
    /\ UNCHANGED <<gmodule, latest_yaml, status, path_var, file, attempted, gen_results>>
    /\ UNCHANGED <<serverVars, genVars, parseVars, buildVars, sessionVars>>

\* ui.py lines 1191-1198: select_tab("yaml")
SelectYamlTab ==
    /\ gmodule = "ui"
    /\ output_text' = latest_yaml
    /\ gop' = "select_tab"
    /\ UNCHANGED <<gmodule, latest_yaml, status, path_var, file, attempted, gen_results>>
    /\ UNCHANGED <<serverVars, genVars, parseVars, buildVars, sessionVars>>

\* the user types a path, or chooses one
SetPath(path) ==
    /\ gmodule \in {"ui", "gen_clash_from_url"}
    /\ path_var' = path
    /\ gop' = "path"
    /\ UNCHANGED <<gmodule, latest_yaml, output_text, status, file, attempted, gen_results>>
    /\ UNCHANGED <<serverVars, genVars, parseVars, buildVars, sessionVars>>

SaveNext ==
    \/ \E url \in GuiUrls : GuiGenerate(url)
    \/ \E end \in WriteEnds : GuiSaveYaml(end)
    \/ \E text \in TypedTexts : EditOutput(text)
    \/ SelectYamlTab
    \/ \E path \in GuiPaths : SetPath(path)

SpecSave == SaveInit /\ [][SaveNext]_vars

(***************************************************************************)
(* The local server of src/ui.py: start_local_server, stop_local_server    *)
(* and toggle_local_server run on the main thread of Tk, one step per      *)
(* callback.  Every successful start makes a session: its own latest,      *)
(* lock, stop_event and httpd, a refresh thread and the handler threads of *)
(* its httpd, all of them closures over the objects of that start.  The    *)
(* threads are daemon threads: nothing ends them when the session stops.   *)
(* A with block of a session's lock is one step, and so is a do_GET, which *)
(* touches what the threads share in one with block.                       *)
(***************************************************************************)
\* the URLs of the URL box: two subscriptions, and a blank
ServeUrls == {"https://a.example/sub", "https://b.example/sub"}

\* what the URL box, the port box and the interval box hold when a start
\* reads them, and whether ThreadingHTTPServer((listen, port), Handler) then
\* returns: two good settings, a port that is taken, a blank URL, a port and
\* an interval that are no integers, a port no socket can be bound to
StartInputs ==
    {[url |-> "https://a.example/sub", port |-> "", interval |-> "", bound |-> TRUE],
     [url |-> " https://b.example/sub", port |-> "9095", interval |-> "5", bound |-> TRUE],
     [url |-> "https://a.example/sub", port |-> "", interval |-> "", bound |-> FALSE],
     [url |-> " ", port |-> "", interval |-> "", bound |-> TRUE],
     [url |-> "https://a.example/sub", port |-> "x", interval |-> "", bound |-> TRUE],
     [url |-> "https://a.example/sub", port |-> "", interval |-> "x", bound |-> TRUE],
     [url |-> "https://b.example/sub", port |-> "70000", interval |-> "", bound |-> FALSE]}

\* what the subscription server of a URL replies
RepliesTo(url) ==
    IF url = "https://a.example/sub"
    THEN {ReplyOf(<<ExampleSS8123>>), [failed |-> TRUE, ok |-> FALSE, text |-> ""]}
    ELSE {ReplyOf(<<ExampleSS8123, ExampleVmess>>), [failed |-> TRUE, ok |-> FALSE, text |-> ""]}

\* ui.py line 902: int(serve_port_var.get().strip() or "9095")
PortOf(text) == int(IF Strip(text) = "" THEN "9095" ELSE Strip(text))

\* ui.py line 908: int(serve_interval_var.get().strip() or "300")
IntervalOf(text) == int(IF Strip(text) = "" THEN "300" ELSE Strip(text))

\* ui.py lines 894-911 and 970: what start_local_server makes of the boxes;
\* the interval it waits for, at least 10, is no part of the model
ReadInput(in) ==
    [url |-> Strip(in.url), port |-> PortOf(in.port), interval |-> IntervalOf(in.interval),
     bound |-> in.bound /\ PortOf(in.port).ok /\ PortOf(in.port).val \in 0..65535]

\* the paths requested from a local server
GuiGetPaths == {"/clash.yaml", "/favicon.ico"}

\* ui.py lines 471-487
GuiInit ==
    /\ ServerOff
    /\ GenIdle
    /\ ParseIdle
    /\ BuildIdle
    /\ NoSessions
    /\ gmodule = "ui"
    /\ latest_yaml = <<>>
    /\ output_text = <<>>
    /\ status = "ready"
    /\ path_var = ""
    /\ file = NoFile
    /\ gop = ""
    /\ attempted = <<>>
    /\ gen_results = [u \in ServeUrls |-> {generate_from_url(r) : r \in RepliesTo(u)}]
    /\ read_inputs = {ReadInput(in) : in \in StartInputs}

\* a return of start_local_server before a server was made, after
\* set_status(..., "error")
StartFails ==
    /\ status' = "error"
    /\ serve_enabled_var' = FALSE
    /\ UNCHANGED <<serve_state, sessions, threadVars>>

\* ui.py lines 916-986: the objects of a session, its threads, serve_state
StartSession(s, url) ==
    /\ sessions' = s
    /\ surl' = [surl EXCEPT ![s] = url]
    /\ slatest' = [slatest EXCEPT ![s] = EmptyLatest]
    /\ sstop' = [sstop EXCEPT ![s] = FALSE]
    /\ shttpd' = [shttpd EXCEPT ![s] = "serving"]
    /\ srpc' = [srpc EXCEPT ![s] = "refresh_once"]
    /\ serve_state' = ServeStateOf(s)
    /\ status' = "success"
    /\ serve_enabled_var' = TRUE
    /\ UNCHANGED <<srresult, sresp, spublished>>

\* ui.py lines 894-986: start_local_server() when no server is running
StartWith(in) ==
    IF in.url = "" THEN StartFails
    ELSE IF ~in.port.ok THEN StartFails
    ELSE IF ~in.interval.ok THEN StartFails
    ELSE IF ~in.bound THEN StartFails
    ELSE /\ sessions < MaxSessions
         /\ StartSession(sessions + 1, in.url)

\* a start that takes the place of the server that is running
start_local_server_replacing ==
    /\ gmodule = "ui"
    /\ UNCHANGED gop
    /\ \E in \in read_inputs : StartWith(in)
    /\ UNCHANGED <<latest_yaml, output_text, gmodule, path_var, file, attempted, gen_results,
                   after_queue>>
    /\ UNCHANGED <<serverVars, genVars, parseVars, buildVars, read_inputs>>

\* ui.py lines 888-986: start_local_server(); status is the kind handed to
\* set_status
start_local_server ==
    /\ gmodule = "ui"
    /\ UNCHANGED gop
    /\ IF serve_state.httpd # NoObject
       THEN /\ status' = "error"
            /\ serve_enabled_var' = TRUE
            /\ UNCHANGED <<serve_state, sessions, threadVars>>
       ELSE \E in \in read_inputs : StartWith(in)
    /\ UNCHANGED <<latest_yaml, output_text, gmodule, path_var, file, attempted, gen_results,
                   after_queue>>
    /\ UNCHANGED <<serverVars, genVars, parseVars, buildVars, read_inputs>>

\* ui.py lines 988-1006: stop_local_server()
stop_local_server ==
    /\ gmodule = "ui"
    /\ UNCHANGED gop
    /\ IF serve_state.httpd = NoObject
       THEN UNCHANGED <<status, stateVars, sstop, shttpd>>
       ELSE /\ sstop' = [sstop EXCEPT ![serve_state.stop_event] = TRUE]
            /\ shttpd' = [shttpd EXCEPT ![serve_state.httpd] = "closed"]
            /\ serve_state' = ServeStateNone
            /\ serve_enabled_var' = FALSE
            /\ status' = "info"
            /\ UNCHANGED sessions
    /\ UNCHANGED <<surl, slatest, srpc, srresult, sresp, spublished>>
    /\ UNCHANGED <<latest_yaml, output_text, gmodule, path_var, file, attempted, gen_results,
                   after_queue>>
    /\ UNCHANGED <<serverVars, genVars, parseVars, buildVars, read_inputs>>

\* ui.py lines 1008-1012: toggle_local_server()
toggle_local_server ==
    IF serve_enabled_var THEN start_local_server ELSE stop_local_server

\* ui.py lines 412-416: a click on the toggle sets serve_enabled_var to its
\* negation and calls toggle_local_server()
ClickToggle ==
    IF ~serve_enabled_var THEN start_local_server ELSE stop_local_server

\* ui.py line 926: the call of generate_from_url(url) by the refresh thread
\* of session s
GuiRefreshGenerate(s) ==
    /\ srpc[s] = "refresh_once"
    /\ \E res \in gen_results[surl[s]] :
          /\ srresult' = [srresult EXCEPT ![s] = res]
          /\ srpc' = [srpc EXCEPT ![s] = "publish"]
    /\ UNCHANGED <<surl, slatest, sstop, shttpd, sresp, spublished>>
    /\ UNCHANGED <<stateVars, after_queue, docVars, saveVars>>
    /\ UNCHANGED <<serverVars, genVars, parseVars, buildVars, read_inputs>>

\* a refresh that writes the slot serve_state holds when it publishes
SlotOfServeState(s) == serve_state.latest

\* the slot a refresh of session s writes: ui.py lines 916 and 929-934, the
\* latest of its own start
SlotOf(s) == s

\* latest after the with block of lines 928-929 or of lines 932-935
Published(slot, res) ==
    IF res.kind = "Raise"
    THEN [slot EXCEPT !.error = ErrStr(res)]
    ELSE [text |-> res.yaml_text, error |-> "", nodes |-> res.nodes]

\* ui.py lines 927-937: the rest of refresh_once of session s
GuiRefreshPublish(s) ==
    /\ srpc[s] = "publish"
    /\ SlotOf(s) \in Sessions
    /\ slatest' = [slatest EXCEPT ![SlotOf(s)] = Published(slatest[SlotOf(s)], srresult[s])]
    /\ IF srresult[s].kind = "Raise"
       THEN UNCHANGED <<after_queue, spublished>>
       ELSE /\ Len(after_queue) < MaxPending
            /\ after_queue' = Append(after_queue, srresult[s].yaml_text)
            /\ spublished' = [spublished EXCEPT ![s] = @ \cup {srresult[s].yaml_text}]
    /\ srresult' = [srresult EXCEPT ![s] = None]
    /\ srpc' = [srpc EXCEPT ![s] = "wait"]
    /\ UNCHANGED <<surl, sstop, shttpd, sresp>>
    /\ UNCHANGED <<stateVars, docVars, saveVars>>
    /\ UNCHANGED <<serverVars, genVars, parseVars, buildVars, read_inputs>>

\* ui.py line 941: stop_event.wait returns False, the interval is over
GuiRefreshAgain(s) ==
    /\ srpc[s] = "wait"
    /\ ~sstop[s]
    /\ srpc' = [srpc EXCEPT ![s] = "refresh_once"]
    /\ UNCHANGED <<surl, slatest, sstop, shttpd, srresult, sresp, spublished>>
    /\ UNCHANGED <<stateVars, after_queue, docVars, saveVars>>
    /\ UNCHANGED <<serverVars, genVars, parseVars, buildVars, read_inputs>>

\* ui.py line 941: stop_event.wait returns True, refresh_loop returns
GuiRefreshExit(s) ==
    /\ srpc[s] = "wait"
    /\ sstop[s]
    /\ srpc' = [srpc EXCEPT ![s] = "exit"]
    /\ UNCHANGED <<surl, slatest, sstop, shttpd, srresult, sresp, spublished>>
    /\ UNCHANGED <<stateVars, after_queue, docVars, saveVars>>
    /\ UNCHANGED <<serverVars, genVars, parseVars, buildVars, read_inputs>>

\* ui.py lines 920-922: the main loop runs update_output_from_yaml(text)
RunAfter ==
    /\ after_queue # <<>>
    /\ output_text' = Head(after_queue)
    /\ latest_yaml' = Head(after_queue)
    /\ after_queue' = Tail(after_queue)
    /\ UNCHANGED <<status, saveVars, stateVars, threadVars>>
    /\ UNCHANGED <<serverVars, genVars, parseVars, buildVars, read_inputs>>

\* ui.py lines 946-963: the response of session s to the text and the error
\* read from a slot
ResponseTo(s, path, slot) ==
    IF path \notin {"/", "/clash.yaml", "/config.yaml", "/config"}
    THEN [session |-> s, status |-> 404, text |-> <<>>, msg |-> ""]
    ELSE IF slot.error # "" \/ slot.text = <<>>
    THEN [session |-> s, status |-> 503, text |-> <<>>,
          msg |-> IF slot.error # "" THEN slot.error ELSE MsgNotReady]
    ELSE [session |-> s, status |-> 200, text |-> slot.text, msg |-> ""]

\* ui.py lines 945-963: do_GET of a handler thread of session s.  The httpd
\* of the session accepted the request while it served; the thread is a
\* daemon thread of ThreadingHTTPServer and may run after the httpd closed.
GuiGet(s, path) ==
    /\ shttpd[s] # "none"
    /\ sresp' = ResponseTo(s, path, slatest[s])
    /\ UNCHANGED <<surl, slatest, sstop, shttpd, srpc, srresult, spublished>>
    /\ UNCHANGED <<stateVars, after_queue, docVars, saveVars>>
    /\ UNCHANGED <<serverVars, genVars, parseVars, buildVars, read_inputs>>

GuiNext ==
    \/ start_local_server
    \/ stop_local_server
    \/ toggle_local_server
    \/ ClickToggle
    \/ \E s \in Sessions : GuiRefreshGenerate(s)
    \/ \E s \in Sessions : GuiRefreshPublish(s)
    \/ \E s \in Sessions : GuiRefreshAgain(s)
    \/ \E s \in Sessions : GuiRefreshExit(s)
    \/ RunAfter
    \/ \E s \in Sessions, path \in GuiGetPaths : GuiGet(s, path)

SpecGui == GuiInit /\ [][GuiNext]_vars

(***************************************************************************)
(* Properties of the service (Spec)                                        *)
(***************************************************************************)
\* C2: in every interleaving of the refresh thread with the GET handlers, the
\* (text, error) pair a handler has read, when it leaves the locked block, is
\* the content of latest after the last completed publish (or the initial
\* empty slot): never the text of one publish with the error of another that
\* was only half applied.
C2_HandlerReadsCompletePublish ==
    [][\A h \in Handlers :
          (hpc[h] = "error" /\ hpc'[h] = "respond")
              => (htext[h] = committed.text /\ herr'[h] = committed.error)]_vars

\* a handler has read a published document while the refresh thread, with
\* the next result in hand, waits for the lock
C2_Witness ==
    \E h \in Handlers :
        /\ hpc[h] = "respond"
        /\ htext[h] # <<>>
        /\ rpc \in {"lock", "except_lock"}
        /\ lock = "free"

\* C3: a refresh whose generate_from_url call fails changes only the error
\* field of latest: text, nodes and updated stay as the last successful
\* refresh wrote them.
C3_FailedRefreshChangesOnlyError ==
    [][(rpc \in {"except_lock", "except_error", "except_unlock"})
          => (latest'.text = latest.text
                /\ latest'.nodes = latest.nodes
                /\ latest'.updated = latest.updated)]_vars

\* a failed refresh has completed after a successful one: its error is in
\* the slot, next to the document, node count and time of the success
C3_Witness ==
    /\ rpc = "wait"
    /\ latest.error # ""
    /\ latest.text # <<>>
    /\ latest.nodes > 0
    /\ latest.updated > 0

\* C4: once a refresh has published a document, every later GET on a
\* designated path is answered with the most recent published document, not
\* with an error response, whatever refreshes failed since.
C4_ServedDespiteFailedRefresh ==
    \A h \in Handlers :
        (hpc[h] = "sent" /\ hpath[h] \in DesignatedPaths /\ htext[h] # <<>>)
            => (hresp[h].status = 200 /\ hresp[h].text = htext[h])

\* C20: every request that is no GET on one of the designated paths, be it
\* on another path or of another method, is answered not-found and never
\* with the document.
C20_NotFoundElsewhere ==
    \A h \in Handlers :
        (hpc[h] = "sent" /\ (hmethod[h] # "GET" \/ hpath[h] \notin DesignatedPaths))
            => (hresp[h].status = 404 /\ hresp[h].text = <<>>)

\* C21: a call of generate_from_url sends one request, transport error or
\* not: after the call of a cycle the count of its requests is 1, and the
\* service sends another request only once the refresh loop has started its
\* next cycle.
C21_OneFetchPerCycle ==
    [][/\ (rpc' # "refresh_once") => (fetches' = 1)
       /\ (fetches' # fetches)
             => \/ rpc = "refresh_once" /\ rpc' # "refresh_once" /\ fetches = 0 /\ fetches' = 1
                \/ rpc = "wait" /\ rpc' = "refresh_once" /\ fetches' = 0]_vars

\* the request of a cycle has failed, its error is being recorded, and no
\* other request has been sent
C21_Witness ==
    /\ rpc = "except_error"
    /\ rresult = InternalError(MsgRequestFailed)
    /\ fetches = 1

\* C27: a GET on a designated path is answered 200 exactly when the error
\* read from the slot is empty and the text read is not blank, with that text
\* as its body, and 503 in every other case, with the error message or else
\* the not-ready text; a 200 never has an empty body; a successful refresh
\* leaves the slot with an empty error and a document, whatever failed before.
C27_StatusFollowsSlot ==
    [][/\ \A h \in Handlers :
             (hpc'[h] = "sent" /\ hmethod'[h] = "GET" /\ hpath'[h] \in DesignatedPaths)
                 => /\ hresp'[h].status \in {200, 503}
                    /\ (hresp'[h].status = 200) <=> (herr'[h] = "" /\ htext'[h] # <<>>)
                    /\ (hresp'[h].status = 200)
                          => (hresp'[h].text = htext'[h] /\ hresp'[h].text # <<>>)
                    /\ (hresp'[h].status = 503)
                          => /\ hresp'[h].text = <<>>
                             /\ hresp'[h].msg = (IF herr'[h] # "" THEN herr'[h] ELSE MsgNotReady)
       /\ (rpc = "unlock" /\ rpc' = "wait")
             => (latest'.error = "" /\ latest'.text # <<>> /\ committed'.error = "")]_vars

\* after a refresh failed, a GET on a designated path has been answered 503
\* with the error message, the document of an earlier refresh still in the slot
C27_Witness ==
    \E h \in Handlers :
        /\ hpc[h] = "sent"
        /\ hpath[h] = "/clash.yaml"
        /\ htext[h] # <<>>
        /\ herr[h] # ""
        /\ hresp[h] = [status |-> 503, text |-> <<>>, msg |-> herr[h]]

\* C29: the refresh loop starts with a refresh, before any wait; once the
\* stop event is set the loop starts no new cycle, so that at most the
\* refresh of the cycle in progress completes, and the thread terminates.
C29_LoopStopsOnEvent ==
    /\ rpc = "refresh_once"
    /\ [][stop_event => ~(rpc = "wait" /\ rpc' = "refresh_once")]_vars
    /\ [][(rpc = "exit") => (rpc' = "exit")]_vars
    /\ (stop_event ~> (rpc = "exit"))

\* the event was set during a refresh, the refresh has published its
\* document and the loop has ended
C29_Witness ==
    /\ stop_event
    /\ rpc = "exit"
    /\ latest.text # <<>>
    /\ latest.error = ""

(***************************************************************************)
(* Properties of generate_from_url (SpecGen)                               *)
(***************************************************************************)
\* the candidate lines of a reply, <<>> when there are none to hand to the loop
CandidateLines(r) ==
    LET body == fetch_text(r)
        lines == IF body.kind = "Raise" THEN body ELSE split_subscription_lines(body.text)
    IN  IF lines.kind = "Lines" THEN lines.lines ELSE <<>>

HasCandidateLines(r) ==
    LET body == fetch_text(r)
    IN  body.kind = "Text" /\ split_subscription_lines(body.text).kind = "Lines"

\* C1: for every sequence of candidate lines handed to the loop of
\* generate_from_url, no exception of a parser escapes: malformed lines are
\* skipped, and when some line is well formed the call yields a document.
C1_NoParserExceptionEscapes ==
    (genpc = "done" /\ HasCandidateLines(reply)) =>
        LET lines == CandidateLines(reply)
        IN  /\ out.kind = "Raise" => out.exc = "InternalError"
            /\ (\E i \in DOMAIN lines : parse_node(lines[i]).kind = "Node") => out.kind = "Ok"

\* C5: when the fetched body is empty, or none of its lines parses into a
\* descriptor, generate_from_url fails with the empty-result InternalError,
\* not with the error of fetch_text, and it never returns a document whose
\* proxy list is empty.
C5_EmptyResultError ==
    (genpc = "done" /\ ~reply.failed /\ reply.ok) =>
        LET lines == CandidateLines(reply)
        IN  /\ (Strip(reply.text) = ""
                  \/ (/\ HasCandidateLines(reply)
                      /\ \A i \in DOMAIN lines : parse_node(lines[i]).kind # "Node"))
                => out = InternalError(MsgEmptyResult)
            /\ out.kind = "Ok" => out.cfg["proxies"] # <<>>

\* the types of the proxies of a document, in order
ProxyTypes(cfg) == [i \in DOMAIN cfg["proxies"] |-> cfg["proxies"][i].type]

\* the statement of C6 on the body as printed: the three lines, the first
\* being ss://YWVzLTI1Ni1nY206cGFzc0AxLjIuMy40OjguMTIz, give 2 descriptors,
\* the ss one and then the vmess one, and a document of those 2 proxies.
C6_AsPrinted ==
    (genpc = "done" /\ reply = ExampleReply) =>
        /\ out.kind = "Ok"
        /\ out.nodes = 2
        /\ ProxyTypes(out.cfg) = <<"ss", "vmess">>

\* C6: the ss line as printed decodes to aes-256-gcm:pass@1.2.3.4:8.123,
\* whose port is no integer, and gives no descriptor, so the body as printed
\* does not give 2 descriptors; with the port 8123, that is the first line
\* ss://YWVzLTI1Ni1nY206cGFzc0AxLjIuMy40OjgxMjM=, generate_from_url gives
\* exactly 2 descriptors, the ss one and then the vmess one, the middle line
\* is dropped, and the document lists exactly those 2 proxies in that order.
C6_EndToEnd ==
    /\ (genpc = "done" /\ reply = ExampleReply) => ~(out.kind = "Ok" /\ out.nodes = 2)
    /\ (genpc = "done" /\ reply = ExampleReply8123) =>
          /\ out.kind = "Ok"
          /\ out.nodes = 2
          /\ ProxyTypes(out.cfg) = <<"ss", "vmess">>
          /\ out.cfg["proxies"][1].server = "1.2.3.4"
          /\ out.cfg["proxies"][1].port = 8123
          /\ out.cfg["proxies"][1].cipher = "aes-256-gcm"
          /\ out.cfg["proxies"][1].password = "pass"
          /\ out.cfg["proxies"][2].server = "1.2.3.4"
          /\ out.cfg["proxies"][2].port = 443
          /\ out.cfg["proxies"][2].uuid = "uuid1"
          /\ out.cfg["proxy-groups"][1].proxies = <<"ss@1.2.3.4:8123", "vmess">>

\* the call on the body with the port 8123 has returned its document
C6_Witness ==
    /\ genpc = "done"
    /\ reply = ExampleReply8123
    /\ out.kind = "Ok"
    /\ Len(out.cfg["proxies"]) = 2

\* the line is of the scheme ss:// or vmess://
IsProxyScheme(ln) == StartsWith(ln, "ss://") \/ StartsWith(ln, "vmess://")

\* C26: a candidate line of a scheme other than ss:// and vmess:// is
\* ignored: parse_node gives None for it, and generate_from_url returns, or
\* fails with, what the other lines alone give: the same descriptors in the
\* same order, the same document, the same count.
C26_OtherSchemesIgnored ==
    (genpc = "done" /\ HasCandidateLines(reply)) =>
        LET lines == CandidateLines(reply)
        IN  /\ \A i \in DOMAIN lines : ~IsProxyScheme(lines[i]) => parse_node(lines[i]) = None
            /\ out = generate_from_nodes(parse_lines(SelectSeq(lines, IsProxyScheme), 1, <<>>))

\* the call on an ss line, a trojan line and a vmess line has returned the
\* document of the ss and the vmess descriptor
C26_Witness ==
    /\ genpc = "done"
    /\ reply = ReplyOf(<<ExampleSS8123, "trojan://pass@1.2.3.4:443", ExampleVmess>>)
    /\ out.kind = "Ok"
    /\ out.nodes = 2
    /\ ProxyTypes(out.cfg) = <<"ss", "vmess">>

(***************************************************************************)
(* Properties of the GUI's generate and save (SpecSave)                    *)
(***************************************************************************)
\* C22: a save_yaml whose write fails reports a save error and changes
\* neither latest_yaml nor the output box, and the save_yaml run next, with
\* no generate in between, writes to the file the very text whose write
\* had failed.
C22_SaveFailureKeepsDocument ==
    [][/\ (gop' = "save_yaml" /\ status' = "error_save")
             => (latest_yaml' = latest_yaml /\ output_text' = output_text)
       /\ (gop = "save_yaml" /\ status = "error_save" /\ gop' = "save_yaml"
               /\ status' = "saved")
             => (file' = FileOf(attempted) /\ attempted' = attempted /\ ~IsBlank(attempted))]_vars

\* a save has failed after it had opened the file: the save error is
\* reported, the file is empty and latest_yaml still holds the generated
\* document the save tried to write
C22_Witness ==
    /\ gop = "save_yaml"
    /\ status = "error_save"
    /\ file = FileOf(<<>>)
    /\ latest_yaml \in {res.yaml_text : res \in {r \in gen_results : r.kind = "Ok"}}
    /\ attempted = latest_yaml

(***************************************************************************)
(* Properties of the local server of the GUI (SpecGui)                     *)
(***************************************************************************)
\* the four entries of serve_state are all None or all the objects of one start
ServeStateWhole ==
    \/ serve_state = ServeStateNone
    \/ \E s \in Sessions : serve_state = ServeStateOf(s)

\* the local HTTP servers that exist
ServersOpen == {s \in Sessions : shttpd[s] = "serving"}

\* the server serve_state holds is the one that exists, its stop event not set
OneServer ==
    /\ Cardinality(ServersOpen) <= 1
    /\ ServersOpen = IF serve_state.httpd = NoObject THEN {} ELSE {serve_state.httpd}
    /\ \A s \in ServersOpen : ~sstop[s]

\* C28: over any sequence of start_local_server, stop_local_server and
\* toggle_local_server calls at most one local HTTP server exists at a time,
\* the one serve_state holds; the four entries of serve_state are all set or
\* all None; a start while a server is running reports an error and leaves
\* serve_state and the server as they are; a start that fails (blank URL,
\* invalid port or interval, bind error) leaves all four None; a stop leaves
\* all four None and no server open.
C28_OneLocalServer ==
    /\ [](ServeStateWhole /\ OneServer)
    /\ [][start_local_server /\ serve_state.httpd # NoObject
             => /\ status' = "error"
                /\ UNCHANGED <<serve_state, shttpd, sstop, sessions>>]_vars
    /\ [][start_local_server /\ serve_state.httpd = NoObject /\ status' = "error"
             => /\ serve_state' = ServeStateNone
                /\ ServersOpen' = {}]_vars
    /\ [][stop_local_server
             => /\ serve_state' = ServeStateNone
                /\ ServersOpen' = {}]_vars
    /\ [][toggle_local_server \/ ClickToggle => ServeStateWhole' /\ OneServer']_vars

\* a second server was started after the first was stopped, and a start
\* while it runs was rejected
C28_Witness ==
    /\ sessions = 2
    /\ shttpd[1] = "closed"
    /\ serve_state = ServeStateOf(2)
    /\ status = "error"
    /\ serve_enabled_var

\* the documents generate_from_url makes of the subscription of session s
DocumentsOf(s) == {res.yaml_text : res \in {r \in gen_results[surl[s]] : r.kind # "Raise"}}

\* the slot of session s changes in this step
SlotWritten(s) == slatest'[s] # slatest[s]

\* this step is the with block of the refresh thread of session s
OwnPublish(s) ==
    /\ srpc[s] = "publish"
    /\ srpc'[s] = "wait"
    /\ slatest'[s] = Published(slatest[s], srresult[s])

\* C30: the sessions of the local server are isolated.  The slot a session's
\* handlers read is written by the refresh thread of that session only, also
\* while a refresh thread of a stopped session is still inside
\* generate_from_url or publishes what it returned; a handler of a session
\* sends with status 200 only a text the refresh thread of its own session
\* has published, a document of that session's own subscription.
C30_SessionsIsolated ==
    /\ [][\A s \in Sessions : SlotWritten(s) /\ sessions' = sessions => OwnPublish(s)]_vars
    /\ [][\A s \in Sessions : srpc[s] = "publish" /\ srpc'[s] = "wait"
             => \A t \in Sessions \ {s} : slatest'[t] = slatest[t]]_vars
    /\ [](sresp.status = 200
             => /\ sresp.text \in spublished[sresp.session]
                /\ sresp.text \in DocumentsOf(sresp.session)
                /\ sresp.text = slatest[sresp.session].text)

\* the second session serves its own document, which the GUI shows, and the
\* refresh thread of the stopped first session, which had not returned from
\* refresh_once when the second session started, has published since: its
\* document, another one, waits in the queue of root.after
C30_Witness ==
    /\ sessions = 2
    /\ surl[1] # surl[2]
    /\ sstop[1]
    /\ shttpd[2] = "serving"
    /\ latest_yaml \in spublished[2]
    /\ after_queue # <<>>
    /\ after_queue[1] \in spublished[1]
    /\ after_queue[1] \notin spublished[2]
    /\ sresp.session = 2
    /\ sresp.status = 200
    /\ sresp.text \notin spublished[1]

(***************************************************************************)
(* Properties of the parsers (SpecParse)                                   *)
(***************************************************************************)
\* C7: parse_ss returns None, without raising, for every ss:// line where a
\* required separator is missing (no '@', no ':' in the authority, no ':'
\* before the port) or where the port text is no decimal integer.
C7_ParseSSRejects ==
    (called = "parse_ss"
        /\ line \in SSNoAt \cup SSNoAuthColon \cup SSNoPortColon \cup SSBadPort)
        => node = None

\* vmess lines whose port or aid is a text that is no integer
VmessBadInt ==
    {VmessLine(JsonObject(<<"\"add\":\"1.2.3.4\"", p, "\"id\":\"uuid1\"", aid>>)) :
        p \in {"\"port\":\"44x\""}, aid \in AidMembers}
    \cup {VmessLine(JsonObject(<<"\"add\":\"1.2.3.4\"", p, "\"id\":\"uuid1\"", "\"aid\":\"x\"">>)) :
            p \in PortMembers}

\* C8: parse_vmess returns None, without raising, for every vmess:// line
\* whose payload fails base64 decoding, fails JSON parsing, is JSON but no
\* object, or carries a port or aid that is no integer.
C8_ParseVmessRejects ==
    (called = "parse_vmess"
        /\ line \in VmessNotBase64 \cup VmessNotJson \cup VmessNotObject \cup VmessBadInt)
        => node = None

\* C9: parse_ss on the host-port [::1]:8443 gives host ::1 and port 8443, and
\* on every malformed bracket form (starting with '[' and without ']', or
\* with a ']' that no ':' follows) it gives no descriptor.
C9_BracketForms ==
    \A m \in Methods :
        /\ \A hp \in BracketGood :
              (called = "parse_ss" /\ line = "ss://" \o m \o ":pass@" \o hp)
                  => (node.kind = "Node" /\ node.data.server = "::1" /\ node.data.port = 8443)
        /\ \A hp \in BracketNoClose \cup BracketNoColon :
              (called = "parse_ss" /\ line = "ss://" \o m \o ":pass@" \o hp)
                  => node = None

\* C10: for every valid cleartext line ss://method:password@host:port,
\* parse_ss returns a descriptor whose cipher, password, server and port are
\* the method, password, host and port of the line.
C10_CleartextRoundTrip ==
    \A m \in Methods, p \in Passwords, h \in Hosts, pt \in PortTexts :
        (called = "parse_ss" /\ line = SSLine(m, p, h, pt))
            => /\ node.kind = "Node"
               /\ node.data.cipher = m
               /\ node.data.password = p
               /\ node.data.server = h
               /\ node.data.port = int(pt).val

\* C11: for every credential string method:password@host:port, parse_ss on
\* ss:// followed by the base64 of the string returns the descriptor it
\* returns on the cleartext line ss:// followed by the string itself.
C11_Base64MatchesCleartext ==
    \A m \in Methods, p \in RawPasswords, h \in Hosts, pt \in PortTexts :
        (called = "parse_ss" /\ line = SSBase64Line(Credential(m, p, h, pt)))
            => (node.kind = "Node" /\ node = parse_ss(SSClearLine(Credential(m, p, h, pt))))

\* C14: every descriptor a parser returns is fully populated: one of parse_ss
\* has a non-empty server, cipher and password and an integer port, one of
\* parse_vmess has a non-empty server, a non-zero port and a non-empty uuid; a
\* line where one of these is absent or empty gives no descriptor.
C14_FullyPopulated ==
    /\ (called = "parse_ss" /\ node.kind = "Node")
          => /\ node.data.server # ""
             /\ node.data.cipher # ""
             /\ node.data.password # ""
             /\ node.data.port \in Int
    /\ (called = "parse_vmess" /\ node.kind = "Node")
          => /\ node.data.server # ""
             /\ node.data.port \in Int \ {0}
             /\ node.data.uuid # ""
    /\ (called = "parse_ss" /\ line \in SSEmptyField) => node = None

\* the members port and aid that are integers, or absent
PortIntMembers == {"", "\"port\":443", "\"port\":0", "\"port\":\"443\""}

AidIntMembers == {"", "\"aid\":2"}

\* C18: parse_vmess gives no descriptor for a payload without id, and none
\* for a payload without port or with port 0 (None when the port and aid that
\* are present are integers); for the payload with add, port and id only it
\* gives a descriptor with cipher auto, network tcp and alterId 0.
C18_VmessRequiredFields ==
    /\ \A a \in AddMembers, p \in PortMembers, i \in IdMembers, aid \in AidMembers :
          (/\ called = "parse_vmess"
           /\ line = VmessLine(JsonObject(<<a, p, i, aid>>))
           /\ (i = "" \/ p \in {"", "\"port\":0"}))
              => /\ node.kind # "Node"
                 /\ (p \in PortIntMembers /\ aid \in AidIntMembers) => node = None
    /\ (called = "parse_vmess" /\ line = ExampleVmess)
          => /\ node.kind = "Node"
             /\ node.data.server = "1.2.3.4"
             /\ node.data.port = 443
             /\ node.data.uuid = "uuid1"
             /\ node.data.cipher = "auto"
             /\ node.data.network = "tcp"
             /\ node.data.alterId = 0

\* parse_vmess has returned None for the payload with add and port 443 only
C18_Witness ==
    /\ called = "parse_vmess"
    /\ line = VmessLine("{\"add\":\"1.2.3.4\",\"port\":443}")
    /\ line \in VmessObjects
    /\ node = None

\* the tag of a fragment
TagOf(f) == IF f = "" THEN "" ELSE unquote(SubSeq(f, 2, Len(f)))

\* C23: with the fragment and the query removed, parse_ss base64-decodes the
\* remainder when it has no '@' or when the part before its first '@' has no
\* ':', and percent-decodes it as cleartext in every other case; the query
\* changes nothing of what parse_ss returns.
C23_EncodingForm ==
    \A b \in QueryBodies, q \in Queries, f \in Fragments :
        (called = "parse_ss" /\ line = "ss://" \o b \o q \o f)
            => /\ node = IF ~Contains(b, "@") \/ ~Contains(SplitFirst(b, "@")[1], ":")
                         THEN ss_from_base64(b64decode_any(b), TagOf(f))
                         ELSE ss_from_decoded(unquote(b), TagOf(f))
               /\ node = parse_ss("ss://" \o b \o f)

\* a base64 line with a query and a fragment has given its descriptor, the
\* escape in its password kept as written
C23_Witness ==
    /\ called = "parse_ss"
    /\ line = "ss://" \o b64encode(Credential("aes-256-gcm", "p%41w", "1.2.3.4", "8443"))
                  \o "?plugin=obfs-local" \o "#tag"
    /\ node.kind = "Node"
    /\ node.name = "tag"
    /\ node.data.password = "p%41w"

\* the JSON object a vmess line carries
PayloadOf(ln) ==
    json_loads(decode_text(b64decode_any(Strip(SubSeq(ln, Len("vmess://") + 1, Len(ln)))).bytes)).v

\* the member key of a payload, "" when it is absent, null or empty
Member(conf, key) == Unwrap(Or(Get(conf, key), JStr("")))

\* the first of the values that is not empty, "" when all are
FirstOf3(a, b, c) == IF a # "" THEN a ELSE IF b # "" THEN b ELSE c

\* "tls" in any case
TlsSpellings == {"tls", "Tls", "tLs", "tlS", "TLs", "TlS", "tLS", "TLS"}

\* C24: a descriptor of parse_vmess has the keys tls and skip-cert-verify,
\* both true, exactly when the tls member of the payload is "tls" in any
\* case, and the key servername exactly when TLS is enabled and the SNI value
\* (sni, else servername, else host) is not empty, with that value; without
\* TLS it has none of the three keys.
C24_TlsKeys ==
    (called = "parse_vmess" /\ node.kind = "Node")
        => LET conf == PayloadOf(line)
               tlsOn == Member(conf, "tls") \in TlsSpellings
               sni == FirstOf3(Member(conf, "sni"), Member(conf, "servername"),
                               Member(conf, "host"))
           IN  /\ ("tls" \in DOMAIN node.data) <=> tlsOn
               /\ ("skip-cert-verify" \in DOMAIN node.data) <=> tlsOn
               /\ tlsOn => (node.data["tls"] = TRUE /\ node.data["skip-cert-verify"] = TRUE)
               /\ ("servername" \in DOMAIN node.data) <=> (tlsOn /\ sni # "")
               /\ ("servername" \in DOMAIN node.data) => node.data["servername"] = sni

\* a payload with "tls":"TLS" and a host only has given a descriptor whose
\* servername is the host
C24_Witness ==
    /\ called = "parse_vmess"
    /\ line = VmessWith(<<"\"tls\":\"TLS\"", "", "", "\"host\":\"h.example\"">>)
    /\ node.kind = "Node"
    /\ node.data["tls"] = TRUE
    /\ node.data["servername"] = "h.example"

\* C25: a descriptor of parse_vmess has the block ws-opts exactly when net is
\* "ws", its path being the payload's path or "/" and its Host header, written
\* only when the payload has a host or an SNI value, being the host or else
\* that value; it has the block grpc-opts exactly when net is "grpc" and path
\* or serviceName gives a service name; for any other net it has neither.
C25_TransportBlocks ==
    (called = "parse_vmess" /\ node.kind = "Node")
        => LET conf == PayloadOf(line)
               net == Member(conf, "net")
               path == Member(conf, "path")
               hdr == FirstOf3(Member(conf, "host"), Member(conf, "sni"),
                               Member(conf, "servername"))
               svc == FirstOf3(path, Member(conf, "serviceName"), "")
           IN  /\ ("ws-opts" \in DOMAIN node.data) <=> (net = "ws")
               /\ ("ws-opts" \in DOMAIN node.data)
                     => /\ node.data["ws-opts"]["path"] = (IF path = "" THEN "/" ELSE path)
                        /\ ("headers" \in DOMAIN node.data["ws-opts"]) <=> (hdr # "")
                        /\ ("headers" \in DOMAIN node.data["ws-opts"])
                              => node.data["ws-opts"]["headers"] = ("Host" :> hdr)
               /\ ("grpc-opts" \in DOMAIN node.data) <=> (net = "grpc" /\ svc # "")
               /\ ("grpc-opts" \in DOMAIN node.data)
                     => node.data["grpc-opts"] = ("grpc-service-name" :> svc)

\* a payload with net "ws" and an SNI value only has given a descriptor whose
\* ws-opts has the path "/" and that value as its Host header
C25_Witness ==
    /\ called = "parse_vmess"
    /\ line = VmessWith(<<"\"net\":\"ws\"", "", "", "", "\"sni\":\"sni.example\"">>)
    /\ node.kind = "Node"
    /\ node.data["ws-opts"] = (("path" :> "/") @@ ("headers" :> ("Host" :> "sni.example")))

(***************************************************************************)
(* Properties of b64decode_any and split_subscription_lines (SpecDecode)   *)
(***************************************************************************)
\* C12: b64decode_any raises for no text, be it empty, of either alphabet,
\* without padding or no base64 at all: it always returns bytes, and so
\* split_subscription_lines lets no decoding exception out.
C12_DecodeNeverRaises ==
    /\ called = "b64decode_any" => node.kind = "Bytes"
    /\ called = "split_subscription_lines" => node.kind = "Lines"

\* C13: for every byte string bs, b64decode_any gives bs back from each of
\* its four encodings: standard or URL-safe alphabet, trailing '=' kept or
\* stripped.
C13_RoundTrip ==
    \A bs \in ByteStrings :
        (called = "b64decode_any" /\ line \in Encodings(bs))
            => node = [kind |-> "Bytes", bytes |-> bs]

\* the URL-safe encoding of two bytes, its '=' stripped, has been decoded
C13_Witness ==
    /\ called = "b64decode_any"
    /\ line = "-_8"
    /\ line = StripPadding(urlsafe_b64encode(<<251, 255>>))
    /\ node = [kind |-> "Bytes", bytes |-> <<251, 255>>]

\* C19: split_subscription_lines applied to its own output, the lines joined
\* and encoded again as its input, returns the same lines in the same order.
C19_SplitIdempotent ==
    (called = "split_subscription_lines" /\ node.kind = "Lines")
        => split_subscription_lines(b64encode(JoinLines(node.lines))) = node

\* a body with lines to trim, a blank line and a line without "://" has
\* been split into its two proxy lines
C19_Witness ==
    /\ called = "split_subscription_lines"
    /\ line = b64encode("  ss://a  \r\n\r\nnot-a-proxy-line\nvmess://b\n")
    /\ node = [kind |-> "Lines", lines |-> <<"ss://a", "vmess://b">>]

(***************************************************************************)
(* Properties of build_clash_config (SpecBuild)                            *)
(***************************************************************************)
\* the names of the descriptors handed to the assembler, in order
NamesOf(nodes) == [i \in DOMAIN nodes |-> nodes[i].name]

\* the names of the selection groups of a document
GroupNames(cfg) == {cfg["proxy-groups"][g].name : g \in DOMAIN cfg["proxy-groups"]}

\* C15: build_clash_config keeps the order, sorts nothing and drops no
\* repeated name: the proxy list is the list of the descriptors' data, in
\* their order, and every selection group lists all the names in that order,
\* alone in the manual-only layout, after AUTO and DIRECT in the manual group
\* of the auto-test layout.
C15_OrderPreserving ==
    /\ bcalled \in {"core", "gen_clash_from_url"}
          => /\ Len(bcfg["proxies"]) = Len(bnodes)
             /\ \A i \in DOMAIN bnodes : bcfg["proxies"][i] = bnodes[i].data
    /\ bcalled = "core"
          => /\ Len(bcfg["proxy-groups"]) = 1
             /\ bcfg["proxy-groups"][1].proxies = NamesOf(bnodes)
    /\ bcalled = "gen_clash_from_url"
          => /\ Len(bcfg["proxy-groups"]) = 2
             /\ bcfg["proxy-groups"][1].proxies = NamesOf(bnodes)
             /\ bcfg["proxy-groups"][2].name = "MANUAL"
             /\ bcfg["proxy-groups"][2].proxies = <<"AUTO", "DIRECT">> \o NamesOf(bnodes)

\* the descriptors named A, B and again A have been assembled by src/core.py
C15_Witness ==
    /\ bcalled = "core"
    /\ NamesOf(bnodes) = <<"A", "B", "A">>
    /\ bcfg["proxy-groups"][1].proxies = <<"A", "B", "A">>

\* C16: for every port and allow_lan the document has port = port,
\* socks-port = port + 1, allow-lan = allow_lan, and the key bind-address,
\* bound to all interfaces, exactly when allow_lan is true.
C16_PortsAndLan ==
    bcalled \in {"core", "gen_clash_from_url"}
        => /\ bcfg["port"] = bport
           /\ bcfg["socks-port"] = bport + 1
           /\ bcfg["allow-lan"] = ballow
           /\ ("bind-address" \in DOMAIN bcfg) <=> ballow
           /\ ballow => bcfg["bind-address"] = "*"

\* a document has been assembled without exposure to the LAN
C16_Witness ==
    /\ bcalled = "core"
    /\ ~ballow
    /\ bport = 1082
    /\ bcfg["socks-port"] = 1083
    /\ "bind-address" \notin DOMAIN bcfg

\* C17: every document carries exactly three rules, in this order:
\* GEOIP,LAN,DIRECT,no-resolve, then GEOIP,CN,DIRECT, then MATCH with the
\* name of the manual group, and that group is one of the document's
\* selection groups, whatever the descriptors are.
C17_ThreeRules ==
    bcalled \in {"core", "gen_clash_from_url"}
        => /\ Len(bcfg["rules"]) = 3
           /\ bcfg["rules"][1] = "GEOIP,LAN,DIRECT,no-resolve"
           /\ bcfg["rules"][2] = "GEOIP,CN,DIRECT"
           /\ bcfg["rules"][3] = "MATCH,MANUAL"
           /\ SplitFirst(bcfg["rules"][3], ",")[2] \in GroupNames(bcfg)
           /\ \E g \in DOMAIN bcfg["proxy-groups"] :
                 /\ bcfg["proxy-groups"][g].name = "MANUAL"
                 /\ bcfg["proxy-groups"][g].type = "select"

\* a document has been assembled from no descriptor at all
C17_Witness ==
    /\ bcalled = "gen_clash_from_url"
    /\ bnodes = <<>>
    /\ Len(bcfg["rules"]) = 3

====
